---- MODULE Spec2Model ----
(***************************************************************************)
(* Model of the cctvscan discovery-and-assessment pipeline:                *)
(*   - portscan.HybridScanner.Scan with the local-target cache, the two    *)
(*     discovery engines and NaabuScanner.VerifyPorts;                     *)
(*   - processor.OptimizedProcessor.ProcessHosts (host tasks, semaphore,   *)
(*     merge lock, wait group);                                            *)
(*   - credbrute.OptimizedBruteForce (URL tasks, credential trials,        *)
(*     channels) and credbrute.TryDefaultBasic.                            *)
(* Strings the code inspects character by character (targets, credential   *)
(* lines) are tuples of one-character strings.                             *)
(***************************************************************************)
EXTENDS Integers, Sequences, FiniteSets, TLC

(* ------------------------------ bounds -------------------------------- *)
\* longest target batch handed to HybridScanner.Scan
MaxTargets == 2
\* most (host, port) reports one scan-engine run delivers
MaxReports == 2
\* most hosts in the map handed to ProcessHosts
MaxHosts == 6
\* most login URLs handed to the credential tester
MaxURLs == 2
\* most lines of the credential file
MaxCreds == 2
\* most credential goroutines one tester call starts (URLs times lines)
MaxTrials == 4
\* most goroutines calling into the fingerprint package at once
MaxCallers == 2
\* most calls of OptimizedDetect and OptimizedCVEsForBrand in one run
MaxDetectCalls == 3
\* ports in one call of ProbeRTSP
MaxRtspPorts == 2
\* most hosts processHost is run for
MaxPipelineHosts == 1
\* most HTTP ports handed to FindMJPEGPaths
MaxMjpegPorts == 1
\* longest list passed to Uniq
MaxUniqLen == 4
\* output lines of one masscan run
MaxLines == 2
\* retries of a TCPVerifier
MaxRetries == 1
\* ports of one ProbeHTTPMeta call
MaxMetaPorts == 2
\* ports of one login-page probe call
MaxLoginPorts == 2
\* addresses of out the model keeps during one CIDR expansion
MaxAppends == 60
\* ports of a host in the port filtering
MaxFilterPorts == 3
\* lines of a credential file
MaxFileLines == 2
\* loadCredentials calls of a run
MaxLoads == 2
\* bits of one octet of an address
OctetBits == 1

(* ------------------------------ strings ------------------------------- *)
T_loopback == <<"1","2","7",".","0",".","0",".","1">>
T_localhost == <<"l","o","c","a","l","h","o","s","t">>
T_loopnet == <<"1","2","7",".","1",".","1",".","1">>
T_external == <<"1","0",".","0",".","0",".","1">>
T_midloop == <<"1","0",".","1","2","7",".","1">>
\* the target strings a batch is drawn from: a loopback address other than
\* 127.0.0.1, the name, and two external addresses
TargetUniverse == {T_loopnet, T_localhost, T_external, T_midloop}
\* the ports a scan engine can report
PortUniverse == {80, 554}

\* strings.HasPrefix
HasPrefix(s, prefix) ==
    /\ Len(s) >= Len(prefix)
    /\ SubSeq(s, 1, Len(prefix)) = prefix

\* all sequences over S of length at most n
RECURSIVE SeqsUpTo(_, _)
SeqsUpTo(S, n) ==
    IF n = 0 THEN {<<>>}
    ELSE LET shorter == SeqsUpTo(S, n - 1)
         IN shorter \cup {Append(s, x) : s \in {t \in shorter : Len(t) = n - 1}, x \in S}

\* a Go map with no keys (a nil map reads the same)
EmptyMap == [k \in {} |-> <<>>]

\* m[k] = v on a Go map
MapPut(m, k, v) == [x \in (DOMAIN m) \cup {k} |-> IF x = k THEN v ELSE m[x]]

VARIABLES
    localhostCache,   \* package-level map target -> bool (portscan)
    scanPc,           \* position of the HybridScanner.Scan call
    targets,          \* argument of the current Scan call
    hasLocalhost,     \* local of Scan
    discoveryEngines, \* engines invoked for discovery by the current call
    discoveredPorts,  \* local of Scan: host -> ports
    verifyFailed,     \* VerifyPorts returned an error in the current call
    scanResult,       \* returned map
    scanErr,          \* returned error is non-nil
    portsFlag,        \* main: value of the -ports flag of the run
    cfg,              \* HybridScanner.cfg: Ports and Rate
    discoveryRun,     \* options and outcome of the discovery engine run
    verifyRun,        \* options of the verification engine run
    engineRuns        \* number of engine runs started by the current call

scanVars == <<localhostCache, scanPc, targets, hasLocalhost, discoveryEngines,
              discoveredPorts, verifyFailed, scanResult, scanErr, portsFlag,
              cfg, discoveryRun, verifyRun, engineRuns>>

VARIABLES
    phPc,         \* position of the ProcessHosts call
    results,      \* argument of ProcessHosts: host -> ports
    taskPc,       \* position of each host goroutine
    semaphore,    \* number of slots of the semaphore channel in use
    mu,           \* holder of the merge lock, 0 when free
    wg,           \* counter of the wait group
    hostResults,  \* the run-wide result list
    crashed,      \* the process was terminated by an unrecovered panic
    phReturned    \* the list ProcessHosts returned

hostVars == <<phPc, results, taskPc, semaphore, mu, wg, hostResults, crashed,
              phReturned>>

VARIABLES
    credFn,        \* running tester: "none", "optimized" or "basic"
    loginURLs,     \* argument: the login URLs are 1..loginURLs
    creds,         \* the loaded credential list
    bfPc,          \* position of the tester's caller-side code
    bfResult,      \* the string the tester returned
    urlPc,         \* OptimizedBruteForce: position of each URL goroutine
    credPc,        \* OptimizedBruteForce: position of each credential goroutine
    credSem,       \* per URL: slots of the credential semaphore in use
    credWg,        \* per URL: counter of credWg
    credChan,      \* per URL: buffer and closed flag of credChan
    credCloser,    \* per URL: position of the goroutine closing credChan
    bfWg,          \* counter of wg
    resultChan,    \* buffer and closed flag of resultChan
    resultCloser,  \* position of the goroutine closing resultChan
    tbU,           \* TryDefaultBasic: index of the current URL
    tbC,           \* TryDefaultBasic: index of the current credential
    probeResp,     \* per URL: what the unauthenticated request was answered with
    trials,        \* the (URL, credential index) requests sent with Authorization
    succeeded      \* the trials answered with status 200

credVars == <<credFn, loginURLs, creds, bfPc, bfResult, urlPc, credPc, credSem,
              credWg, credChan, credCloser, bfWg, resultChan, resultCloser,
              tbU, tbC, probeResp, trials, succeeded>>

VARIABLES
    fpPc,      \* position of the caller of the detection
    fpIn,      \* the signals of the last detection
    fpOut,     \* what detectBrand returned for them
    fpDetect   \* what DetectWithVersion returned for them

fpVars == <<fpPc, fpIn, fpOut, fpDetect>>

VARIABLES
    brandCache,  \* brandCache.cache: key -> BrandResult
    dPc,         \* per caller: position in OptimizedDetect or OptimizedCVEsForBrand
    dArgs,       \* per caller: the arguments of the call in progress
    dCalls,      \* number of calls made so far
    detectLog,   \* the (signals, vendor, note) of the OptimizedDetect calls that returned
    cveLog,      \* the (vendor, list) of the OptimizedCVEsForBrand calls that returned
    repeatChangedCVEs  \* a repeated OptimizedDetect call changed a vendor's list

detectVars == <<brandCache, dPc, dArgs, dCalls, detectLog, cveLog,
                repeatChangedCVEs>>

VARIABLES
    rtspPc,    \* position of the caller of ProbeRTSP
    rtspIn,    \* what each port of the call does with the probe
    rtspOut    \* the RTSPInfo returned

rtspVars == <<rtspPc, rtspIn, rtspOut>>

VARIABLES
    pPc,          \* position of processHost
    pCtx,         \* the context of the run: "live" or "done"
    pEnv,         \* the host being processed, as the probes have met it
    pPending,     \* OptimizedProbe: the probe goroutines still running
    pStartedLate, \* the probes of the call in progress, or the credential test, run with ctx done
    pWrites,      \* per field of the probe result: the goroutines that assigned it
    pResult,      \* the HostResult of the host
    pBruteCalls,  \* the login-page lists OptimizedBruteForce was called with
    pSnapshot,    \* the TryMJPEG goroutine of the last host returned
    pDone         \* number of hosts processHost has returned for

pipeVars == <<pPc, pCtx, pEnv, pPending, pStartedLate, pWrites, pResult,
              pBruteCalls, pSnapshot, pDone>>

VARIABLES
    mjPc,        \* position of FindMJPEGPaths
    mjServes,    \* the host answers the paths with an MJPEG stream
    mjPortPc,    \* per port: position of the port goroutine
    mjLaunched,  \* per port: path goroutines started so far
    mjInFlight,  \* per port: HEAD requests sent and not answered yet
    mjSem,       \* slots of the semaphore in use
    mjWg,        \* counter of wg
    mjFound,     \* len(foundPaths)
    mjResult     \* length of the list FindMJPEGPaths returned

mjpegVars == <<mjPc, mjServes, mjPortPc, mjLaunched, mjInFlight, mjSem, mjWg,
               mjFound, mjResult>>

VARIABLES
    uqPc,     \* position of the caller of Uniq
    uqIn,     \* the list passed to Uniq
    uqOut,    \* Uniq of the list
    uqTwice   \* Uniq of Uniq of the list

uniqVars == <<uqPc, uqIn, uqOut, uqTwice>>

VARIABLES
    mpPc,     \* position of the parseMasscanOutput call
    mpLines,  \* the lines read from the stdout of the masscan process
    mpOut     \* the map parseMasscanOutput returned

parseVars == <<mpPc, mpLines, mpOut>>

VARIABLES
    vmPc,       \* position of the VerifyMap call
    vmIn,       \* the map passed to VerifyMap
    vmRetries,  \* TCPVerifier.retries
    vmDials,    \* per address, the first dial attempt that succeeds (0: none)
    vmOut,      \* the map VerifyMap returned
    vmVerified, \* per host, what Verify returned
    vmAttempts  \* per address dialled, the number of dials made

verifyVars == <<vmPc, vmIn, vmRetries, vmDials, vmOut, vmVerified, vmAttempts>>

VARIABLES
    hmPc,       \* position of the ProbeHTTPMeta call
    hmPorts,    \* the ports passed to ProbeHTTPMeta
    hmAnswers,  \* what GET / is answered with on each of them
    hmNext,     \* index of the port the loop is at
    hmMeta,     \* local meta
    hmGets      \* the ports a GET was issued to, in order

metaVars == <<hmPc, hmPorts, hmAnswers, hmNext, hmMeta, hmGets>>

VARIABLES
    lfPc,       \* position of the login-page probe call
    lfFinder,   \* which of the two finders is called
    lfPorts,    \* the ports passed to it
    lfProfile,  \* how the host answers each path
    lfOut       \* the list returned

loginVars == <<lfPc, lfFinder, lfPorts, lfProfile, lfOut>>

VARIABLES
    cdPc,     \* position of the FromArgsOrFile call
    cdNet,    \* ipnet of the CIDR target
    cdIp,     \* the loop variable ip
    cdOut,    \* local out
    cdResult  \* the list returned

cidrVars == <<cdPc, cdNet, cdIp, cdOut, cdResult>>

VARIABLES
    pfPc,     \* position of the port filtering of processHost
    pfPorts,  \* the ports of the host
    pfHTTP,   \* result.HTTPPorts
    pfRTSP    \* result.RTSPPorts

filterVars == <<pfPc, pfPorts, pfHTTP, pfRTSP>>

VARIABLES
    lcPc,       \* "idle" before the credential files are given, then "ready"
    lcFiles,    \* the credential file at each path
    credCache,  \* package-level credCache: creds and file
    lcLog       \* the loadCredentials calls made: path, list and error returned

loadVars == <<lcPc, lcFiles, credCache, lcLog>>

vars == <<scanVars, hostVars, credVars, fpVars, detectVars, rtspVars, pipeVars,
          mjpegVars, uniqVars, parseVars, verifyVars, metaVars, loginVars, cidrVars, filterVars, loadVars>>

(* ===================== portscan: HybridScanner.Scan =================== *)

\* the classification expression of HybridScanner.hasLocalhostTargets
isLocalhost(target) ==
    \/ target = T_loopback
    \/ target = T_localhost
    \/ HasPrefix(target, <<"1","2","7",".">>)

\* hasLocalhostFrom with a cache hit deciding the whole batch (return
\* instead of continue on a cached non-local target)
RECURSIVE hasLocalhostFrom_hitDecides(_, _, _)
hasLocalhostFrom_hitDecides(batch, i, cache) ==
    IF i > Len(batch) THEN [result |-> FALSE, cache |-> cache]
    ELSE LET target == batch[i] IN
         IF target \in DOMAIN cache
         THEN [result |-> cache[target], cache |-> cache]
         ELSE LET isLocal == isLocalhost(target)
                  stored == MapPut(cache, target, isLocal)
              IN IF isLocal
                 THEN [result |-> TRUE, cache |-> stored]
                 ELSE hasLocalhostFrom_hitDecides(batch, i + 1, stored)

\* HybridScanner.hasLocalhostTargets from position i of the batch: the
\* result and the cache it leaves behind
RECURSIVE hasLocalhostFrom(_, _, _)
hasLocalhostFrom(batch, i, cache) ==
    IF i > Len(batch) THEN [result |-> FALSE, cache |-> cache]
    ELSE LET target == batch[i] IN
         IF target \in DOMAIN cache
         THEN IF cache[target]
              THEN [result |-> TRUE, cache |-> cache]
              ELSE hasLocalhostFrom(batch, i + 1, cache)
         ELSE LET isLocal == isLocalhost(target)
                  stored == MapPut(cache, target, isLocal)
              IN IF isLocal
                 THEN [result |-> TRUE, cache |-> stored]
                 ELSE hasLocalhostFrom(batch, i + 1, stored)

hasLocalhostTargets(batch, cache) == hasLocalhostFrom(batch, 1, cache)

\* MasscanScanner.hasLocalhostTargets (uncached)
MasscanHasLocalhost(batch) ==
    \E i \in 1..Len(batch) :
        \/ batch[i] = T_loopback
        \/ batch[i] = T_localhost
        \/ HasPrefix(batch[i], <<"1","2","7",".">>)

\* results[host] = append(results[host], port)
AppendPort(res, host, port) ==
    MapPut(res, host,
           IF host \in DOMAIN res THEN Append(res[host], port) ELSE <<port>>)

\* the reports one engine run can deliver about the given hosts and ports
EngineReports(hosts, ports) == SeqsUpTo(hosts \X ports, MaxReports)

\* NaabuScanner.Scan: the OnResult callback applied to each report in turn
RECURSIVE NaabuCollect(_, _)
NaabuCollect(reports, res) ==
    IF reports = <<>> THEN res
    ELSE LET ip == Head(reports)[1]
             port == Head(reports)[2]
         IN NaabuCollect(Tail(reports),
                         IF ip # <<>> THEN AppendPort(res, ip, port) ELSE res)

\* MasscanScanner.parseMasscanOutput: one (port, host) per result line
RECURSIVE MasscanCollect(_, _)
MasscanCollect(reports, res) ==
    IF reports = <<>> THEN res
    ELSE LET host == Head(reports)[1]
             port == Head(reports)[2]
         IN MasscanCollect(Tail(reports),
                           IF port > 0 /\ host # <<>>
                           THEN AppendPort(res, host, port) ELSE res)

\* the set of elements of a sequence
Range(s) == {s[i] : i \in 1..Len(s)}

\* NaabuScanner.VerifyPorts: the hosts handed to the verification scan
VerifyTargets(discovered) == DOMAIN discovered

\* NaabuScanner.VerifyPorts: the port list handed to the verification scan
\* (allPorts: every port of every host)
VerifyPortList(discovered) == UNION {Range(discovered[h]) : h \in DOMAIN discovered}

\* what one engine run can do: fail, or deliver reports
EngineBehaviours(hosts, ports) ==
    {[failed |-> TRUE, reports |-> <<>>]}
        \cup {[failed |-> FALSE, reports |-> r] : r \in EngineReports(hosts, ports)}

\* NaabuScanner.VerifyPorts, given what the verification scan did
VerifyPorts(discovered, engine) ==
    IF DOMAIN discovered = {} THEN [ports |-> discovered, err |-> FALSE]
    ELSE IF engine.failed THEN [ports |-> EmptyMap, err |-> TRUE]
    ELSE [ports |-> NaabuCollect(engine.reports, EmptyMap), err |-> FALSE]

\* ScanAfterVerify without the fallback: a verification error fails the run
ScanAfterVerify_noFallback(discovered, verified) ==
    IF verified.err
    THEN [result |-> EmptyMap, err |-> TRUE]
    ELSE [result |-> verified.ports, err |-> FALSE]

\* HybridScanner.Scan, lines 116-129: the return after verification
ScanAfterVerify(discovered, verified) ==
    IF verified.err
    THEN [result |-> discovered, err |-> FALSE]
    ELSE [result |-> verified.ports, err |-> FALSE]

\* flag.String("ports", "0-65535", ...): the all-ports default
DefaultPorts == "0-65535"

\* the flag values of a run: -ports and -rate
MainFlags ==
    {[ports |-> DefaultPorts, rate |-> 1000],
     [ports |-> "80,554", rate |-> 3]}

\* probe.CameraPortsString: the comma-separated list of probe.CameraPorts
CameraPortsString == "80,81,82,...,37777,5000"

\* portscan.GetCCTVPorts
GetCCTVPorts == CameraPortsString

\* mainPortsToScan without the substitution of the default
mainPortsToScan_asGiven(flag) == flag

\* main, lines 63-70: the port specification handed to the scanner
mainPortsToScan(flag) == IF flag = DefaultPorts THEN GetCCTVPorts ELSE flag

\* main, lines 72-81: the HybridConfig built from the flags
MainConfig(flags) == [Ports |-> mainPortsToScan(flags.ports), Rate |-> flags.rate]

\* HybridScanner.Scan, lines 57-66: the NaabuConfig of connect-scan discovery
NaabuDiscoveryConfig(c) == [Ports |-> c.Ports, Rate |-> c.Rate]

\* HybridScanner.Scan, lines 79-85: the MasscanConfig of SYN-scan discovery
MasscanDiscoveryConfig(c) == [Ports |-> c.Ports, Rate |-> c.Rate]

\* MasscanScanner.getPortsToScan
getPortsToScan(ports) ==
    IF ports = "0-65535" \/ ports = "" THEN CameraPortsString ELSE ports

\* HybridScanner.Scan, lines 104-113: the NaabuConfig of the verifying scanner
VerifyConfig(c) == [Ports |-> c.Ports, Rate |-> c.Rate \div 2]

\* NaabuScanner.VerifyPorts, lines 210-212: the rate of the verification scan
VerifyScanRate(naabuCfg) == naabuCfg.Rate \div 2

\* no engine run
NoRun == [engine |-> "none", ports |-> "", rate |-> 0, outcome |-> "none"]

\* what one masscan process can do: fail to start, or run, deliver result
\* lines and exit with or without an error
MasscanBehaviours(hosts, ports) ==
    {[outcome |-> "start-failed", reports |-> <<>>]}
        \cup {[outcome |-> o, reports |-> r] :
                 o \in {"ok", "exit-failed"}, r \in EngineReports(hosts, ports)}

\* MasscanScan that treats a process that did not start as one without output
MasscanScan_startIgnored(batch, process) ==
    IF MasscanHasLocalhost(batch) THEN [ports |-> EmptyMap, err |-> FALSE]
    ELSE IF process.outcome = "start-failed" THEN [ports |-> EmptyMap, err |-> FALSE]
    ELSE IF process.outcome = "exit-failed" THEN [ports |-> EmptyMap, err |-> TRUE]
    ELSE [ports |-> MasscanCollect(process.reports, EmptyMap), err |-> FALSE]

\* MasscanScanner.Scan for a non-empty batch, given what the process did
MasscanScan(batch, process) ==
    IF MasscanHasLocalhost(batch) THEN [ports |-> EmptyMap, err |-> FALSE]
    ELSE IF process.outcome = "start-failed" THEN [ports |-> EmptyMap, err |-> TRUE]
    ELSE IF process.outcome = "exit-failed" THEN [ports |-> EmptyMap, err |-> TRUE]
    ELSE [ports |-> MasscanCollect(process.reports, EmptyMap), err |-> FALSE]

ScanFrame == UNCHANGED <<hostVars, credVars, fpVars, detectVars, rtspVars, pipeVars, mjpegVars,
        uniqVars, parseVars, verifyVars, metaVars, loginVars, cidrVars, filterVars, loadVars>>

ScanLocalsReset ==
    /\ targets' = <<>>
    /\ hasLocalhost' = FALSE
    /\ discoveryEngines' = {}
    /\ discoveredPorts' = EmptyMap
    /\ verifyFailed' = FALSE
    /\ scanResult' = EmptyMap
    /\ scanErr' = FALSE
    /\ discoveryRun' = NoRun
    /\ verifyRun' = NoRun
    /\ engineRuns' = 0

InitScan ==
    /\ localhostCache = [k \in {} |-> FALSE]
    /\ scanPc = "idle"
    /\ targets = <<>>
    /\ hasLocalhost = FALSE
    /\ discoveryEngines = {}
    /\ discoveredPorts = EmptyMap
    /\ verifyFailed = FALSE
    /\ scanResult = EmptyMap
    /\ scanErr = FALSE
    /\ portsFlag = DefaultPorts
    /\ cfg = MainConfig([ports |-> DefaultPorts, rate |-> 1000])
    /\ discoveryRun = NoRun
    /\ verifyRun = NoRun
    /\ engineRuns = 0

\* main, lines 72-92, and HybridScanner.Scan, lines 40-51: entry, empty batch, engine selection
ScanCall ==
    /\ scanPc = "idle"
    /\ \E flags \in MainFlags :
        /\ portsFlag' = flags.ports
        /\ cfg' = MainConfig(flags)
    /\ \E batch \in SeqsUpTo(TargetUniverse, MaxTargets) :
        /\ targets' = batch
        /\ IF Len(batch) = 0
           THEN /\ scanResult' = EmptyMap
                /\ scanErr' = FALSE
                /\ scanPc' = "returned"
                /\ UNCHANGED <<localhostCache, hasLocalhost>>
           ELSE LET sel == hasLocalhostTargets(batch, localhostCache) IN
                /\ localhostCache' = sel.cache
                /\ hasLocalhost' = sel.result
                /\ scanPc' = "discover"
                /\ UNCHANGED <<scanResult, scanErr>>
    /\ UNCHANGED <<discoveryEngines, discoveredPorts, verifyFailed, discoveryRun,
                   verifyRun, engineRuns>>
    /\ ScanFrame

\* HybridScanner.Scan, lines 94-101, after a discovery engine returned
ScanAfterDiscovery(engineName, found, failed) ==
    /\ discoveryEngines' = discoveryEngines \cup {engineName}
    /\ engineRuns' = engineRuns + 1
    /\ IF failed
       THEN /\ scanResult' = EmptyMap
            /\ scanErr' = TRUE
            /\ scanPc' = "returned"
            /\ UNCHANGED discoveredPorts
       ELSE /\ discoveredPorts' = found
            /\ IF DOMAIN found = {}
               THEN /\ scanResult' = found
                    /\ scanErr' = FALSE
                    /\ scanPc' = "returned"
               ELSE /\ scanPc' = "verify"
                    /\ UNCHANGED <<scanResult, scanErr>>
    /\ UNCHANGED <<localhostCache, targets, hasLocalhost, verifyFailed,
                   portsFlag, cfg, verifyRun>>
    /\ ScanFrame

\* HybridScanner.Scan, lines 51-72: connect-scan discovery
NaabuDiscovery ==
    /\ scanPc = "discover"
    /\ hasLocalhost
    /\ \E engine \in EngineBehaviours(Range(targets), PortUniverse) :
        LET naabuCfg == NaabuDiscoveryConfig(cfg) IN
        /\ discoveryRun' = [engine |-> "naabu", ports |-> naabuCfg.Ports,
                            rate |-> naabuCfg.Rate,
                            outcome |-> IF engine.failed THEN "failed" ELSE "ok"]
        /\ ScanAfterDiscovery("naabu", NaabuCollect(engine.reports, EmptyMap),
                              engine.failed)

\* HybridScanner.Scan, lines 73-92: SYN-scan discovery
MasscanDiscovery ==
    /\ scanPc = "discover"
    /\ ~hasLocalhost
    /\ \E process \in MasscanBehaviours(Range(targets), PortUniverse) :
        LET masscanCfg == MasscanDiscoveryConfig(cfg)
            scanned == MasscanScan(targets, process)
        IN
        /\ discoveryRun' = [engine |-> "masscan",
                            ports |-> getPortsToScan(masscanCfg.Ports),
                            rate |-> masscanCfg.Rate,
                            outcome |-> process.outcome]
        /\ ScanAfterDiscovery("masscan", scanned.ports, scanned.err)

\* HybridScanner.Scan, lines 103-129: verification and return
ScanVerify ==
    /\ scanPc = "verify"
    /\ \E engine \in EngineBehaviours(VerifyTargets(discoveredPorts),
                                       VerifyPortList(discoveredPorts)) :
        LET verified == VerifyPorts(discoveredPorts, engine)
            ret == ScanAfterVerify(discoveredPorts, verified)
        IN /\ verifyFailed' = verified.err
           /\ scanResult' = ret.result
           /\ scanErr' = ret.err
    /\ verifyRun' = [engine |-> "naabu", ports |-> "discovered",
                     rate |-> VerifyScanRate(VerifyConfig(cfg)),
                     outcome |-> "run"]
    /\ engineRuns' = engineRuns + 1
    /\ scanPc' = "returned"
    /\ UNCHANGED <<localhostCache, targets, hasLocalhost, discoveryEngines,
                   discoveredPorts, portsFlag, cfg, discoveryRun>>
    /\ ScanFrame

\* the caller takes the result; the package-level cache outlives the call
ScanDone ==
    /\ scanPc = "returned"
    /\ scanPc' = "idle"
    /\ ScanLocalsReset
    /\ UNCHANGED <<localhostCache, portsFlag, cfg>>
    /\ ScanFrame

(* ================ processor: OptimizedProcessor.ProcessHosts ========== *)

\* capacity of the host-level semaphore
HostLimit == 5

\* the port list of host h in the input maps
PortsOf(h) == <<<<80>>, <<554>>, <<80, 554>>>>[(h % 3) + 1]

\* the maps ProcessHosts is called with: hosts 1..n
InputMaps == {[h \in 1..n |-> PortsOf(h)] : n \in 0..MaxHosts}

\* SemaphoreHasRoom with the bound off by one
SemaphoreHasRoom_offByOne(inUse) == inUse <= HostLimit

\* semaphore <- struct{}{} can proceed
SemaphoreHasRoom(inUse) == inUse < HostLimit

\* WaitGroupDone that does not wait for the last task
WaitGroupDone_early(counter) == counter <= 1

\* wg.Wait() can return
WaitGroupDone(counter) == counter = 0

\* the arguments the goroutine of host h is started with
TaskArgs(input, h) == [h |-> h, portList |-> input[h]]

\* processHost: the fields of the record that identify the host
processHost(host, ports) == [Host |-> host, Ports |-> ports]

HostsFrame == UNCHANGED <<scanVars, credVars, fpVars, detectVars, rtspVars, pipeVars, mjpegVars,
        uniqVars, parseVars, verifyVars, metaVars, loginVars, cidrVars, filterVars, loadVars>>

InitHosts ==
    /\ phPc = "idle"
    /\ results = EmptyMap
    /\ taskPc = EmptyMap
    /\ semaphore = 0
    /\ mu = 0
    /\ wg = 0
    /\ hostResults = <<>>
    /\ crashed = FALSE
    /\ phReturned = <<>>

\* ProcessHosts, lines 52-73: one goroutine per host, wg.Add(1) for each
ProcessHostsCall ==
    /\ phPc = "idle"
    /\ ~crashed
    /\ \E input \in InputMaps :
        /\ results' = input
        /\ taskPc' = [h \in DOMAIN input |-> "acquire"]
        /\ wg' = Cardinality(DOMAIN input)
    /\ phPc' = "wait"
    /\ UNCHANGED <<semaphore, mu, hostResults, crashed, phReturned>>
    /\ HostsFrame

\* host goroutine, line 64: take a semaphore slot
TaskAcquire(h) ==
    /\ ~crashed
    /\ taskPc[h] = "acquire"
    /\ SemaphoreHasRoom(semaphore)
    /\ semaphore' = semaphore + 1
    /\ taskPc' = [taskPc EXCEPT ![h] = "process"]
    /\ UNCHANGED <<phPc, results, mu, wg, hostResults, crashed, phReturned>>
    /\ HostsFrame

\* host goroutine, line 67: processHost returns
TaskProcess(h) ==
    /\ ~crashed
    /\ taskPc[h] = "process"
    /\ taskPc' = [taskPc EXCEPT ![h] = "lock"]
    /\ UNCHANGED <<phPc, results, semaphore, mu, wg, hostResults, crashed,
                   phReturned>>
    /\ HostsFrame

\* host goroutine, line 67: processHost panics; nothing recovers, the Go
\* runtime terminates the process
TaskPanic(h) ==
    /\ ~crashed
    /\ taskPc[h] = "process"
    /\ taskPc' = [taskPc EXCEPT ![h] = "panicked"]
    /\ crashed' = TRUE
    /\ UNCHANGED <<phPc, results, semaphore, mu, wg, hostResults, phReturned>>
    /\ HostsFrame

\* host goroutine, line 69: mu.Lock()
TaskLock(h) ==
    /\ ~crashed
    /\ taskPc[h] = "lock"
    /\ mu = 0
    /\ mu' = h
    /\ taskPc' = [taskPc EXCEPT ![h] = "append"]
    /\ UNCHANGED <<phPc, results, semaphore, wg, hostResults, crashed, phReturned>>
    /\ HostsFrame

\* host goroutine, lines 70-72 and the deferred calls: append, mu.Unlock(),
\* release the semaphore slot, wg.Done()
TaskAppend(h) ==
    /\ ~crashed
    /\ taskPc[h] = "append"
    /\ mu = h
    /\ LET args == TaskArgs(results, h) IN
       hostResults' = Append(hostResults, processHost(args.h, args.portList))
    /\ mu' = 0
    /\ semaphore' = semaphore - 1
    /\ wg' = wg - 1
    /\ taskPc' = [taskPc EXCEPT ![h] = "done"]
    /\ UNCHANGED <<phPc, results, crashed, phReturned>>
    /\ HostsFrame

\* ProcessHosts, lines 75-76: wg.Wait() and return
ProcessHostsReturn ==
    /\ ~crashed
    /\ phPc = "wait"
    /\ WaitGroupDone(wg)
    /\ phReturned' = hostResults
    /\ phPc' = "returned"
    /\ UNCHANGED <<results, taskPc, semaphore, mu, wg, hostResults, crashed>>
    /\ HostsFrame

(* ========= credbrute: OptimizedBruteForce and TryDefaultBasic ========= *)

C_admin == <<"a",":","b">>
C_root == <<"r",":","s">>
C_bare == <<"x">>
\* the lines a credential file is made of
CredUniverse == {C_admin, C_root, C_bare}

\* capacity of the per-URL credential semaphore
CredLimit == 5

\* the status codes a server answers with
StatusCodes == {200, 401, 403, 404}

Failed == [state |-> "failed", status |-> 0, wwwAuth |-> FALSE]

\* what kind of answer the unauthenticated request got: none ("failed"), one
\* with status 401 or 403 or a WWW-Authenticate header ("challenge"), or
\* any other ("plain")
ProbeKind(resp) ==
    IF resp.state # "answered" THEN "failed"
    ELSE IF resp.status \in {401, 403} \/ resp.wwwAuth THEN "challenge"
    ELSE "plain"

\* what client.Do can yield for the unauthenticated request
ProbeResponses ==
    {Failed} \cup {[state |-> "answered", status |-> c, wwwAuth |-> w] :
                      c \in StatusCodes, w \in BOOLEAN}

\* what client.Do can yield for a credential trial
TrialResponses ==
    {Failed} \cup {[state |-> "answered", status |-> c, wwwAuth |-> FALSE] :
                      c \in {200, 401}}

\* requiresAuth that takes every URL for one that asks for credentials
requiresAuth_always(resp) == TRUE

\* requiresAuth
requiresAuth(resp) ==
    IF resp.state # "answered" THEN FALSE
    ELSE resp.wwwAuth \/ resp.status = 401 \/ resp.status = 403

\* basicPreflight that skips a URL only on status 404
basicPreflight_skipNotFound(resp) ==
    IF resp.state # "answered" THEN FALSE
    ELSE resp.status # 404

\* TryDefaultBasic, lines 42-47: the preflight lets the trials run
basicPreflight(resp) ==
    IF resp.state # "answered" THEN FALSE
    ELSE ~(~resp.wwwAuth /\ resp.status # 401 /\ resp.status # 403)

\* strings.SplitN(credential, ":", 2)
SplitN2(credential) ==
    LET colons == {i \in 1..Len(credential) : credential[i] = ":"} IN
    IF colons = {} THEN <<credential>>
    ELSE LET first == CHOOSE i \in colons : \A j \in colons : i <= j
         IN <<SubSeq(credential, 1, first - 1),
              SubSeq(credential, first + 1, Len(credential))>>

\* testCredential / TryDefaultBasic: the line yields a request
WellFormed(credential) == Len(SplitN2(credential)) = 2

\* testCredential, line 180
trialSucceeded(resp) == resp.state = "answered" /\ resp.status = 200

\* a channel of capacity 1
NewChan == [buf |-> <<>>, closed |-> FALSE]

\* select { case ch <- v: default: } on a channel of capacity 1
TrySend(ch, v) == IF Len(ch.buf) < 1 THEN [ch EXCEPT !.buf = Append(ch.buf, v)] ELSE ch

\* <-ch can proceed
CanRecv(ch) == ch.buf # <<>> \/ ch.closed

\* the value <-ch yields ("" from a closed, empty channel)
RecvValue(ch) == IF ch.buf # <<>> THEN Head(ch.buf) ELSE <<>>

\* the channel after <-ch
AfterRecv(ch) == IF ch.buf # <<>> THEN [ch EXCEPT !.buf = Tail(ch.buf)] ELSE ch

\* what loading the credential file can yield
LoadOutcomes ==
    {[err |-> TRUE, creds |-> <<>>]}
        \cup {[err |-> FALSE, creds |-> l] : l \in SeqsUpTo(CredUniverse, MaxCreds)}

\* a credential file with one line more than the semaphore has slots
LongList == [i \in 1..(CredLimit + 1) |-> C_admin]

\* the calls of a tester: the number of login URLs and the outcome of loading
TesterCalls ==
    {c \in (0..MaxURLs) \X LoadOutcomes : c[1] * Len(c[2].creds) <= MaxTrials}
        \cup {<<1, [err |-> FALSE, creds |-> LongList]>>}

\* the credential semaphore with no limit
CredSemaphoreHasRoom_unbounded(inUse) == TRUE

\* credential goroutine, line 59: semaphore <- struct{}{} can proceed
CredSemaphoreHasRoom(inUse) == inUse < CredLimit

InitCred ==
    /\ credFn = "none"
    /\ loginURLs = 0
    /\ creds = <<>>
    /\ bfPc = "idle"
    /\ bfResult = <<>>
    /\ urlPc = EmptyMap
    /\ credPc = EmptyMap
    /\ credSem = EmptyMap
    /\ credWg = EmptyMap
    /\ credChan = EmptyMap
    /\ credCloser = EmptyMap
    /\ bfWg = 0
    /\ resultChan = NewChan
    /\ resultCloser = "unspawned"
    /\ tbU = 0
    /\ tbC = 0
    /\ probeResp = EmptyMap
    /\ trials = {}
    /\ succeeded = {}

CredFrame == UNCHANGED <<scanVars, hostVars, fpVars, detectVars, rtspVars, pipeVars, mjpegVars,
        uniqVars, parseVars, verifyVars, metaVars, loginVars, cidrVars, filterVars, loadVars>>

\* OptimizedBruteForce, lines 16-90: load the list, start one goroutine per
\* URL and the goroutine that closes resultChan
BruteCall ==
    /\ credFn = "none"
    /\ \E call \in TesterCalls :
        LET n == call[1]
            load == call[2]
        IN
        /\ loginURLs' = n
        /\ creds' = load.creds
        /\ probeResp' = [u \in 1..n |-> "unsent"]
        /\ IF load.err \/ Len(load.creds) = 0
           THEN /\ bfResult' = <<>>
                /\ bfPc' = "returned"
                /\ UNCHANGED <<urlPc, credPc, credSem, credWg, credChan,
                               credCloser, bfWg, resultCloser>>
           ELSE /\ urlPc' = [u \in 1..n |-> "probe"]
                /\ credPc' = [t \in (1..n) \X (1..Len(load.creds)) |-> "unspawned"]
                /\ credSem' = [u \in 1..n |-> 0]
                /\ credWg' = [u \in 1..n |-> 0]
                /\ credChan' = [u \in 1..n |-> NewChan]
                /\ credCloser' = [u \in 1..n |-> "unspawned"]
                /\ bfWg' = n
                /\ resultCloser' = "wait"
                /\ bfPc' = "select"
                /\ UNCHANGED bfResult
    /\ credFn' = "optimized"
    /\ UNCHANGED <<resultChan, tbU, tbC, trials, succeeded>>
    /\ CredFrame

\* OptimizedBruteForce, lines 92-97: the select with a default branch
BruteSelect ==
    /\ credFn = "optimized"
    /\ bfPc = "select"
    /\ IF CanRecv(resultChan)
       THEN /\ bfResult' = RecvValue(resultChan)
            /\ resultChan' = AfterRecv(resultChan)
       ELSE /\ bfResult' = <<>>
            /\ UNCHANGED resultChan
    /\ bfPc' = "returned"
    /\ UNCHANGED <<credFn, loginURLs, creds, urlPc, credPc, credSem, credWg,
                   credChan, credCloser, bfWg, resultCloser, tbU, tbC,
                   probeResp, trials, succeeded>>
    /\ CredFrame

\* URL goroutine, lines 41-75: the unauthenticated request; without a
\* challenge the goroutine ends, otherwise it starts one goroutine per
\* credential and the goroutine that closes credChan
URLProbe(u) ==
    /\ credFn = "optimized"
    /\ urlPc[u] = "probe"
    /\ \E resp \in ProbeResponses :
        /\ probeResp' = [probeResp EXCEPT ![u] = ProbeKind(resp)]
        /\ IF ~requiresAuth(resp)
           THEN /\ urlPc' = [urlPc EXCEPT ![u] = "done"]
                /\ bfWg' = bfWg - 1
                /\ UNCHANGED <<credPc, credWg, credCloser>>
           ELSE /\ urlPc' = [urlPc EXCEPT ![u] = "recv"]
                /\ credPc' = [t \in DOMAIN credPc |->
                                 IF t[1] = u THEN "wait" ELSE credPc[t]]
                /\ credWg' = [credWg EXCEPT ![u] = Len(creds)]
                /\ credCloser' = [credCloser EXCEPT ![u] = "wait"]
                /\ UNCHANGED bfWg
    /\ UNCHANGED <<credFn, loginURLs, creds, bfPc, bfResult, credSem, credChan,
                   resultChan, resultCloser, tbU, tbC, trials, succeeded>>
    /\ CredFrame

\* credential goroutine, lines 58-62 and 160-174: take a semaphore slot and
\* send the request; a line without ":" sends nothing and the goroutine ends
CredStart(u, i) ==
    /\ credFn = "optimized"
    /\ credPc[<<u, i>>] = "wait"
    /\ CredSemaphoreHasRoom(credSem[u])
    /\ IF WellFormed(creds[i])
       THEN /\ trials' = trials \cup {<<u, i>>}
            /\ credSem' = [credSem EXCEPT ![u] = @ + 1]
            /\ credPc' = [credPc EXCEPT ![<<u, i>>] = "test"]
            /\ UNCHANGED credWg
       ELSE /\ credPc' = [credPc EXCEPT ![<<u, i>>] = "done"]
            /\ credWg' = [credWg EXCEPT ![u] = @ - 1]
            /\ UNCHANGED <<trials, credSem>>
    /\ UNCHANGED <<credFn, loginURLs, creds, bfPc, bfResult, urlPc, credChan,
                   credCloser, bfWg, resultChan, resultCloser, tbU, tbC,
                   probeResp, succeeded>>
    /\ CredFrame

\* credential goroutine, lines 62-67 and 174-180 and the deferred calls:
\* the answer arrives; on success a non-blocking send on credChan
CredFinish(u, i) ==
    /\ credFn = "optimized"
    /\ credPc[<<u, i>>] = "test"
    /\ \E resp \in TrialResponses :
        IF trialSucceeded(resp)
        THEN /\ credChan' = [credChan EXCEPT ![u] = TrySend(@, creds[i])]
             /\ succeeded' = succeeded \cup {<<u, i>>}
        ELSE UNCHANGED <<credChan, succeeded>>
    /\ credSem' = [credSem EXCEPT ![u] = @ - 1]
    /\ credWg' = [credWg EXCEPT ![u] = @ - 1]
    /\ credPc' = [credPc EXCEPT ![<<u, i>>] = "done"]
    /\ UNCHANGED <<credFn, loginURLs, creds, bfPc, bfResult, urlPc, credCloser,
                   bfWg, resultChan, resultCloser, tbU, tbC, probeResp, trials>>
    /\ CredFrame

\* Wait() that returns whatever the counter is
waitReturns_early(counter) == TRUE

\* sync.WaitGroup.Wait() returns: the counter is zero
waitReturns(counter) == counter = 0

\* lines 72-75: credWg.Wait(); close(credChan)
CredClose(u) ==
    /\ credFn = "optimized"
    /\ credCloser[u] = "wait"
    /\ waitReturns(credWg[u])
    /\ credChan' = [credChan EXCEPT ![u].closed = TRUE]
    /\ credCloser' = [credCloser EXCEPT ![u] = "done"]
    /\ UNCHANGED <<credFn, loginURLs, creds, bfPc, bfResult, urlPc, credPc,
                   credSem, credWg, bfWg, resultChan, resultCloser, tbU, tbC,
                   probeResp, trials, succeeded>>
    /\ CredFrame

\* URL goroutine, lines 77-83: receive from credChan, pass a found credential
\* on to resultChan without blocking, wg.Done()
URLRecv(u) ==
    /\ credFn = "optimized"
    /\ urlPc[u] = "recv"
    /\ CanRecv(credChan[u])
    /\ LET foundCred == RecvValue(credChan[u]) IN
       resultChan' = IF foundCred # <<>> THEN TrySend(resultChan, foundCred)
                     ELSE resultChan
    /\ credChan' = [credChan EXCEPT ![u] = AfterRecv(@)]
    /\ urlPc' = [urlPc EXCEPT ![u] = "done"]
    /\ bfWg' = bfWg - 1
    /\ UNCHANGED <<credFn, loginURLs, creds, bfPc, bfResult, credPc, credSem,
                   credWg, credCloser, resultCloser, tbU, tbC, probeResp,
                   trials, succeeded>>
    /\ CredFrame

\* lines 87-90: wg.Wait(); close(resultChan)
ResultClose ==
    /\ credFn = "optimized"
    /\ resultCloser = "wait"
    /\ waitReturns(bfWg)
    /\ resultChan' = [resultChan EXCEPT !.closed = TRUE]
    /\ resultCloser' = "done"
    /\ UNCHANGED <<credFn, loginURLs, creds, bfPc, bfResult, urlPc, credPc,
                   credSem, credWg, credChan, credCloser, bfWg, tbU, tbC,
                   probeResp, trials, succeeded>>
    /\ CredFrame

\* the variables TryDefaultBasic does not use
BasicUnused == <<urlPc, credPc, credSem, credWg, credChan, credCloser, bfWg,
                 resultChan, resultCloser>>

\* TryDefaultBasic, lines 16-36: open and read the credential file
BasicCall ==
    /\ credFn = "none"
    /\ \E call \in TesterCalls :
        LET n == call[1]
            load == call[2]
        IN
        /\ loginURLs' = n
        /\ creds' = load.creds
        /\ probeResp' = [u \in 1..n |-> "unsent"]
        /\ IF load.err
           THEN /\ bfResult' = <<>>
                /\ bfPc' = "returned"
                /\ tbU' = 0
           ELSE /\ bfPc' = "probe"
                /\ tbU' = 1
                /\ UNCHANGED bfResult
    /\ credFn' = "basic"
    /\ UNCHANGED <<tbC, trials, succeeded, BasicUnused>>
    /\ CredFrame

\* TryDefaultBasic, lines 38-47 and 62: the preflight of the next URL, or
\* the return after the last one
BasicProbe ==
    /\ credFn = "basic"
    /\ bfPc = "probe"
    /\ IF tbU > loginURLs
       THEN /\ bfResult' = <<>>
            /\ bfPc' = "returned"
            /\ UNCHANGED <<tbU, tbC, probeResp>>
       ELSE \E resp \in ProbeResponses :
            /\ probeResp' = [probeResp EXCEPT ![tbU] = ProbeKind(resp)]
            /\ IF basicPreflight(resp)
               THEN /\ bfPc' = "trial"
                    /\ tbC' = 1
                    /\ UNCHANGED tbU
               ELSE /\ tbU' = tbU + 1
                    /\ UNCHANGED <<bfPc, tbC>>
            /\ UNCHANGED bfResult
    /\ UNCHANGED <<credFn, loginURLs, creds, trials, succeeded, BasicUnused>>
    /\ CredFrame

\* TryDefaultBasic, lines 49-60: the next credential of the current URL
BasicTrial ==
    /\ credFn = "basic"
    /\ bfPc = "trial"
    /\ IF tbC > Len(creds)
       THEN /\ tbU' = tbU + 1
            /\ bfPc' = "probe"
            /\ UNCHANGED <<tbC, bfResult, trials, succeeded>>
       ELSE IF ~WellFormed(creds[tbC])
       THEN /\ tbC' = tbC + 1
            /\ UNCHANGED <<tbU, bfPc, bfResult, trials, succeeded>>
       ELSE \E resp \in TrialResponses :
            /\ trials' = trials \cup {<<tbU, tbC>>}
            /\ IF resp.state = "answered" /\ resp.status = 200
               THEN /\ succeeded' = succeeded \cup {<<tbU, tbC>>}
                    /\ bfResult' = creds[tbC]
                    /\ bfPc' = "returned"
                    /\ UNCHANGED <<tbU, tbC>>
               ELSE /\ tbC' = tbC + 1
                    /\ UNCHANGED <<tbU, bfPc, bfResult, succeeded>>
    /\ UNCHANGED <<credFn, loginURLs, creds, probeResp, BasicUnused>>
    /\ CredFrame

(* ======================= fingerprint: detection ======================= *)

\* the letters strings.ToLower changes, and what it changes them to
UpperLetters == <<"A","B","C","D","E","F","G","H","I","J","K","L","M","N","O","P","Q","R","S","T","U","V","W","X","Y","Z">>
LowerLetters == <<"a","b","c","d","e","f","g","h","i","j","k","l","m","n","o","p","q","r","s","t","u","v","w","x","y","z">>

\* strings.ToLower on one character
ToLowerChar(c) ==
    IF \E i \in 1..26 : UpperLetters[i] = c
    THEN LowerLetters[CHOOSE i \in 1..26 : UpperLetters[i] = c]
    ELSE c

\* strings.ToLower
ToLower(s) == [i \in 1..Len(s) |-> ToLowerChar(s[i])]

\* strings.Contains
Contains(s, substr) ==
    \E i \in 0..(Len(s) - Len(substr)) : SubSeq(s, i + 1, i + Len(substr)) = substr

\* unicode.IsSpace on the characters the signals can hold
IsSpace(c) == c \in {" ", "\t", "\n", "\r"}

\* strings.TrimSpace
RECURSIVE TrimSpace(_)
TrimSpace(s) ==
    IF s = <<>> THEN s
    ELSE IF IsSpace(s[1]) THEN TrimSpace(Tail(s))
    ELSE IF IsSpace(s[Len(s)]) THEN TrimSpace(SubSeq(s, 1, Len(s) - 1))
    ELSE s

\* Brand keyword lists
brandKeysHikvision == <<<<"h","i","k","v","i","s","i","o","n">>,
      <<"d","v","r">>,
      <<"n","v","r">>,
      <<"h","i","k","-","c","o","n","n","e","c","t">>,
      <<"i","v","m","s">>,
      <<"w","e","b"," ","s","e","r","v","i","c","e">>>>
brandKeysDahua == <<<<"d","a","h","u","a">>,
      <<"d","v","r">>,
      <<"n","v","r">>,
      <<"d","s","s">>,
      <<"s","m","a","r","t","p","s","s">>,
      <<"d","m","s","s">>>>
brandKeysAxis == <<<<"a","x","i","s">>,
      <<"a","x","i","s"," ","c","o","m","m","u","n","i","c","a","t","i","o","n","s">>,
      <<"a","x","i","s"," ","c","a","m","e","r","a">>,
      <<"a","x","i","s"," ","m","j","p","g">>>>
brandKeysSony == <<<<"s","o","n","y">>,
      <<"i","p","e","l","a">>,
      <<"s","n","c">>,
      <<"s","o","n","y"," ","n","e","t","w","o","r","k"," ","c","a","m","e","r","a">>>>
brandKeysBosch == <<<<"b","o","s","c","h">>,
      <<"s","e","c","u","r","i","t","y"," ","s","y","s","t","e","m","s">>,
      <<"f","l","e","x","i","d","o","m","e">>,
      <<"d","i","n","i","o","n">>,
      <<"a","u","t","o","d","o","m","e">>>>
brandKeysSamsung == <<<<"s","a","m","s","u","n","g">>,
      <<"s","a","m","s","u","n","g"," ","t","e","c","h","w","i","n">>,
      <<"s","a","m","s","u","n","g"," ","s","d","s">>,
      <<"h","a","n","w","h","a">>,
      <<"w","i","s","e","n","e","t">>>>
brandKeysPanasonic == <<<<"p","a","n","a","s","o","n","i","c">>,
      <<"n","e","t","w","o","r","k"," ","c","a","m","e","r","a">>,
      <<"w","v">>,
      <<"b","b">>,
      <<"b","l","c">>>>
brandKeysVivotek == <<<<"v","i","v","o","t","e","k">>,
      <<"n","e","t","w","o","r","k"," ","c","a","m","e","r","a">>,
      <<"i","p"," ","c","a","m","e","r","a">>,
      <<"f","d">>,
      <<"s","d">>>>
brandKeysCPPlus == <<<<"c","p"," ","p","l","u","s">>,
      <<"c","p","p","l","u","s">>,
      <<"c","p","-","p","l","u","s">>,
      <<"c","p","_","p","l","u","s">>>>
brandKeysGeneric == <<<<"c","a","m","e","r","a">>,
      <<"w","e","b","c","a","m">>,
      <<"s","u","r","v","e","i","l","l","a","n","c","e">>,
      <<"i","p"," ","c","a","m","e","r","a">>,
      <<"n","e","t","w","o","r","k"," ","c","a","m","e","r","a">>,
      <<"d","v","r">>,
      <<"n","v","r">>,
      <<"r","e","c","o","r","d","e","r">>>>

\* the vendor names
Hikvision == <<"H","i","k","v","i","s","i","o","n">>
Dahua == <<"D","a","h","u","a">>
Axis == <<"A","x","i","s">>
Sony == <<"S","o","n","y">>
Bosch == <<"B","o","s","c","h">>
Samsung == <<"S","a","m","s","u","n","g">>
Panasonic == <<"P","a","n","a","s","o","n","i","c">>
Vivotek == <<"V","i","v","o","t","e","k">>
CPPlus == <<"C","P"," ","P","l","u","s">>
UnknownCam == <<"U","n","k","n","o","w","n"," ","c","a","m">>

\* containsAny and headerContainsAny on a lower-cased text
containsAny(text, keywords) ==
    \E k \in 1..Len(keywords) : Contains(text, keywords[k])

\* getBrandKeys
getBrandKeys(brand) ==
    CASE brand = Hikvision -> brandKeysHikvision
      [] brand = Dahua -> brandKeysDahua
      [] brand = Axis -> brandKeysAxis
      [] brand = Sony -> brandKeysSony
      [] brand = Bosch -> brandKeysBosch
      [] brand = Samsung -> brandKeysSamsung
      [] brand = Panasonic -> brandKeysPanasonic
      [] brand = Vivotek -> brandKeysVivotek
      [] brand = CPPlus -> brandKeysCPPlus
      [] OTHER -> <<>>

\* normalizeRtspBrandFromServer
normalizeRtspBrandFromServer(srvRaw) ==
    LET s == TrimSpace(srvRaw)
        low == ToLower(s)
    IN IF Contains(low, <<"h","i","p","c","a","m">>) THEN <<"H","i","p","c","a","m">>
       ELSE IF Contains(low, <<"t","v","t">>) THEN <<"T","V","T">>
       ELSE IF Contains(low, <<"u","b","n","t">>) \/ Contains(low, <<"u","b","i","q","u","i","t","i">>) THEN <<"U","b","i","q","u","i","t","i">>
       ELSE IF Contains(low, <<"g","s","t","r","e","a","m","e","r">>) THEN <<"G","S","t","r","e","a","m","e","r">>
       ELSE IF Contains(low, <<"h","2","6","4","d","v","r">>) THEN <<"H","2","6","4","D","V","R">>
       ELSE IF Contains(low, <<"r","t","p","r","t","s","p","f","l","y","e","r">>) THEN <<"R","t","p","R","t","s","p","F","l","y","e","r">>
       ELSE IF Contains(low, <<"r","t","s","p"," ","s","e","r","v","e","r">>) \/ Contains(low, <<"r","t","s","p">>) THEN <<"R","T","S","P">>
       ELSE IF s # <<>> THEN s
       ELSE <<"R","T","S","P">>

\* detectBrand with Dahua tried before Hikvision
brandMatchers_dahuaFirst ==
    <<Dahua, Hikvision, Axis, Sony, Bosch, Samsung, Panasonic, Vivotek, CPPlus>>

\* detectBrand: the names of brandMatchers, in the order of the slice
brandMatchers ==
    <<Hikvision, Dahua, Axis, Sony, Bosch, Samsung, Panasonic, Vivotek, CPPlus>>

\* detectBrand: the matcher closure of a vendor
matcher(name, lh, lb, lr) ==
    CASE name = Hikvision ->
            \/ containsAny(lh, brandKeysHikvision)
            \/ containsAny(lb, brandKeysHikvision)
            \/ Contains(lr, <<"h","i","k">>)
      [] name = Dahua ->
            \/ containsAny(lh, brandKeysDahua)
            \/ containsAny(lb, brandKeysDahua)
            \/ Contains(lr, <<"d","a","h","u","a">>)
      [] name = Axis ->
            \/ containsAny(lh, brandKeysAxis)
            \/ containsAny(lb, brandKeysAxis)
            \/ Contains(lr, <<"a","x","i","s">>)
      [] name = Sony ->
            \/ containsAny(lh, brandKeysSony)
            \/ containsAny(lb, brandKeysSony)
            \/ Contains(lr, <<"s","o","n","y">>)
      [] name = Bosch ->
            \/ containsAny(lh, brandKeysBosch)
            \/ containsAny(lb, brandKeysBosch)
            \/ Contains(lr, <<"b","o","s","c","h">>)
      [] name = Samsung ->
            \/ containsAny(lh, brandKeysSamsung)
            \/ containsAny(lb, brandKeysSamsung)
            \/ Contains(lr, <<"s","a","m","s","u","n","g">>)
      [] name = Panasonic ->
            \/ containsAny(lh, brandKeysPanasonic)
            \/ containsAny(lb, brandKeysPanasonic)
            \/ Contains(lr, <<"p","a","n","a","s","o","n","i","c">>)
      [] name = Vivotek ->
            \/ containsAny(lh, brandKeysVivotek)
            \/ containsAny(lb, brandKeysVivotek)
            \/ Contains(lr, <<"v","i","v","o","t","e","k">>)
      [] name = CPPlus ->
            \/ Contains(lb, <<"c","p"," ","p","l","u","s">>)
            \/ Contains(lb, <<"c","p","p","l","u","s">>)
            \/ Contains(lb, <<"c","p","-","p","l","u","s">>)
            \/ Contains(lb, <<"c","p","_","p","l","u","s">>)
      [] OTHER -> FALSE

\* detectBrand with the header compared as it was sent
detectBrand_headerAsSent(serverHdr, body, rtspServer) ==
    LET lh == serverHdr
        lb == ToLower(body)
        lr == ToLower(rtspServer)
        matching == {i \in 1..Len(brandMatchers) : matcher(brandMatchers[i], lh, lb, lr)}
        norm == normalizeRtspBrandFromServer(rtspServer)
    IN IF matching # {}
       THEN [brand |-> brandMatchers[CHOOSE i \in matching : \A j \in matching : i <= j],
             note |-> <<>>]
       ELSE IF rtspServer # <<>> /\ norm # <<"R","T","S","P">> /\ norm # <<>>
       THEN [brand |-> norm, note |-> <<"R","T","S","P"," ","s","e","r","v","e","r",":"," ">> \o rtspServer]
       ELSE IF \/ containsAny(lh, brandKeysGeneric)
               \/ containsAny(lb, brandKeysGeneric)
               \/ containsAny(lr, brandKeysGeneric)
       THEN [brand |-> UnknownCam, note |-> <<>>]
       ELSE [brand |-> <<>>, note |-> <<>>]

\* detectBrand
detectBrand(serverHdr, body, rtspServer) ==
    LET lh == ToLower(serverHdr)
        lb == ToLower(body)
        lr == ToLower(rtspServer)
        matching == {i \in 1..Len(brandMatchers) : matcher(brandMatchers[i], lh, lb, lr)}
        norm == normalizeRtspBrandFromServer(rtspServer)
    IN IF matching # {}
       THEN [brand |-> brandMatchers[CHOOSE i \in matching : \A j \in matching : i <= j],
             note |-> <<>>]
       ELSE IF rtspServer # <<>> /\ norm # <<"R","T","S","P">> /\ norm # <<>>
       THEN [brand |-> norm, note |-> <<"R","T","S","P"," ","s","e","r","v","e","r",":"," ">> \o rtspServer]
       ELSE IF \/ containsAny(lh, brandKeysGeneric)
               \/ containsAny(lb, brandKeysGeneric)
               \/ containsAny(lr, brandKeysGeneric)
       THEN [brand |-> UnknownCam, note |-> <<>>]
       ELSE [brand |-> <<>>, note |-> <<>>]

\* DetectWithVersion: the vendors in the order of the brands slice
brands ==
    <<Hikvision, Dahua, Axis, Sony, Bosch, Samsung, Panasonic, Vivotek, CPPlus>>

\* the alternatives of webContentPatterns[brand]
webContentPatterns(brand) ==
    CASE brand = Hikvision -> <<<<"h","i","k","v","i","s","i","o","n">>,
      <<"h","i","k","-","c","o","n","n","e","c","t">>,
      <<"i","v","m","s">>,
      <<"w","e","b"," ","s","e","r","v","i","c","e">>,
      <<"l","o","g","i","n",".","j","s","p">>,
      <<"m","a","i","n",".","j","s","p">>>>
      [] brand = Dahua -> <<<<"d","a","h","u","a">>,
      <<"d","s","s">>,
      <<"s","m","a","r","t","p","s","s">>,
      <<"d","m","s","s">>,
      <<"l","o","g","i","n",".","h","t","m","l">>,
      <<"m","a","i","n",".","h","t","m","l">>>>
      [] brand = Axis -> <<<<"a","x","i","s">>,
      <<"a","x","i","s"," ","c","o","m","m","u","n","i","c","a","t","i","o","n","s">>,
      <<"a","x","i","s"," ","c","a","m","e","r","a">>,
      <<"a","x","i","s"," ","m","j","p","g">>,
      <<"a","x","i","s","-","c","g","i">>>>
      [] brand = Sony -> <<<<"s","o","n","y">>,
      <<"i","p","e","l","a">>,
      <<"s","n","c">>,
      <<"s","o","n","y"," ","n","e","t","w","o","r","k"," ","c","a","m","e","r","a">>>>
      [] brand = Bosch -> <<<<"b","o","s","c","h">>,
      <<"f","l","e","x","i","d","o","m","e">>,
      <<"d","i","n","i","o","n">>,
      <<"a","u","t","o","d","o","m","e">>,
      <<"s","e","c","u","r","i","t","y"," ","s","y","s","t","e","m","s">>>>
      [] brand = Samsung -> <<<<"s","a","m","s","u","n","g">>,
      <<"h","a","n","w","h","a">>,
      <<"w","i","s","e","n","e","t">>,
      <<"s","a","m","s","u","n","g"," ","t","e","c","h","w","i","n">>>>
      [] brand = Panasonic -> <<<<"p","a","n","a","s","o","n","i","c">>,
      <<"w","v">>,
      <<"b","b">>,
      <<"b","l","c">>,
      <<"n","e","t","w","o","r","k"," ","c","a","m","e","r","a">>>>
      [] brand = Vivotek -> <<<<"v","i","v","o","t","e","k">>,
      <<"f","d">>,
      <<"s","d">>,
      <<"i","p"," ","c","a","m","e","r","a">>,
      <<"n","e","t","w","o","r","k"," ","c","a","m","e","r","a">>>>
      [] brand = CPPlus -> <<<<"c","p"," ","p","l","u","s">>,
      <<"c","p","p","l","u","s">>,
      <<"c","p","-","p","l","u","s">>,
      <<"c","p","_","p","l","u","s">>>>
      [] OTHER -> <<>>

\* the alternatives between <title> and </title> of titlePatterns[brand]
titlePatterns(brand) ==
    CASE brand = Hikvision -> <<<<"h","i","k","v","i","s","i","o","n">>,
      <<"h","i","k","-","c","o","n","n","e","c","t">>,
      <<"i","v","m","s">>>>
      [] brand = Dahua -> <<<<"d","a","h","u","a">>,
      <<"d","s","s">>,
      <<"s","m","a","r","t","p","s","s">>>>
      [] brand = Axis -> <<<<"a","x","i","s">>,
      <<"a","x","i","s"," ","c","o","m","m","u","n","i","c","a","t","i","o","n","s">>>>
      [] brand = Sony -> <<<<"s","o","n","y">>,
      <<"i","p","e","l","a">>>>
      [] brand = Bosch -> <<<<"b","o","s","c","h">>,
      <<"f","l","e","x","i","d","o","m","e">>>>
      [] brand = Samsung -> <<<<"s","a","m","s","u","n","g">>,
      <<"h","a","n","w","h","a">>,
      <<"w","i","s","e","n","e","t">>>>
      [] brand = Panasonic -> <<<<"p","a","n","a","s","o","n","i","c">>,
      <<"w","v">>,
      <<"b","b">>>>
      [] brand = Vivotek -> <<<<"v","i","v","o","t","e","k">>,
      <<"f","d">>,
      <<"s","d">>>>
      [] OTHER -> <<>>

\* s has substr at position i
HasAt(s, i, substr) ==
    i >= 1 /\ i + Len(substr) - 1 <= Len(s) /\ SubSeq(s, i, i + Len(substr) - 1) = substr

\* titlePatterns[brand].MatchString on the lower-cased body: <title>, an
\* alternative and </title> in this order on one line
titleMatch(lb, alternatives) ==
    \E i \in 1..Len(lb), k \in 1..Len(alternatives) :
        /\ HasAt(lb, i, <<"<","t","i","t","l","e",">">>)
        /\ \E j \in (i + 7)..Len(lb) :
              /\ HasAt(lb, j, alternatives[k])
              /\ \E e \in (j + Len(alternatives[k]))..Len(lb) :
                    /\ HasAt(lb, e, <<"<","/","t","i","t","l","e",">">>)
                    /\ \A x \in (i + 7)..(e - 1) : lb[x] # "\n"

\* DetectWithVersion, lines 80-130: the method by which a vendor matches,
\* "none" when it does not
brandMethod(brand, lh, lb, lr) ==
    IF containsAny(lh, getBrandKeys(brand)) THEN "header"
    ELSE IF containsAny(lb, webContentPatterns(brand)) THEN "web content"
    ELSE IF titleMatch(lb, titlePatterns(brand)) THEN "title"
    ELSE IF containsAny(lb, getBrandKeys(brand)) THEN "body"
    ELSE IF Contains(lr, ToLower(brand)) THEN "rtsp"
    ELSE "none"

\* DetectWithVersion: the vendor and the method that decided it (the version
\* text taken from the content by versionPatterns is not part of the model)
DetectWithVersion(serverHdr, body, rtspServer) ==
    LET lh == ToLower(serverHdr)
        lb == ToLower(body)
        lr == ToLower(rtspServer)
        matching == {i \in 1..Len(brands) : brandMethod(brands[i], lh, lb, lr) # "none"}
        first == CHOOSE i \in matching : \A j \in matching : i <= j
        norm == normalizeRtspBrandFromServer(rtspServer)
    IN IF matching # {}
       THEN [Brand |-> brands[first], Method |-> brandMethod(brands[first], lh, lb, lr)]
       ELSE IF rtspServer # <<>> /\ norm # <<"R","T","S","P">> /\ norm # <<>>
       THEN [Brand |-> norm, Method |-> "rtsp fallback"]
       ELSE IF \/ containsAny(lh, brandKeysGeneric)
               \/ containsAny(lb, brandKeysGeneric)
               \/ containsAny(lr, brandKeysGeneric)
       THEN [Brand |-> UnknownCam, Method |-> "generic"]
       ELSE [Brand |-> <<>>, Method |-> "none"]

\* Detect: the vendor
Detect(serverHdr, body, rtspServer) == DetectWithVersion(serverHdr, body, rtspServer).Brand

\* the vendors of the table of cvedb, by lower-cased name
TableVendors ==
    {ToLower(brands[i]) : i \in 1..Len(brands)}

\* cvedb.ForBrand: the identifiers listed for a lower-cased vendor name, none
\* for a vendor that is not in the table
ForBrand(lowerBrand) ==
    IF lowerBrand \in TableVendors THEN <<<<"C","V","E",":">> \o lowerBrand>> ELSE <<>>

\* CVEsForBrand
CVEsForBrand(brand) == ForBrand(ToLower(brand))

\* the signal strings of the probes
S_hik == <<"H","i","K","V","I","S","I","O","N","-","W","e","b","s">>
S_dvr == <<"d","v","r">>
S_dahua == <<"D","a","h","u","a"," ","R","t","s","p">>
S_camera == <<"W","e","b"," ","C","a","m","e","r","a">>
S_hipcam == <<"H","i","p","c","a","m">>
S_acme == <<"A","c","m","e">>
S_pipeHead == <<"x","|","c","p","p","l","u","s">>
S_x == <<"x">>
S_pipeTail == <<"c","p","p","l","u","s","|">>
S_acmeLower == <<"a","c","m","e">>

\* the signals a detection is tried on
SignalUniverse ==
    {<<>>, S_hik, S_dvr, S_dahua, S_camera, S_hipcam, S_acme, S_pipeHead, S_x,
     S_pipeTail}

FingerprintFrame == UNCHANGED <<scanVars, hostVars, credVars, detectVars, rtspVars, pipeVars, mjpegVars,
        uniqVars, parseVars, verifyVars, metaVars, loginVars, cidrVars, filterVars, loadVars>>

InitFingerprint ==
    /\ fpPc = "idle"
    /\ fpIn = [serverHdr |-> <<>>, body |-> <<>>, rtspServer |-> <<>>]
    /\ fpOut = [brand |-> <<>>, note |-> <<>>]
    /\ fpDetect = [Brand |-> <<>>, Method |-> "none"]

\* one detection on the three signals, by detectBrand and by DetectWithVersion
FingerprintCall ==
    /\ fpPc = "idle"
    /\ fpPc' = "returned"
    /\ \E serverHdr \in SignalUniverse, body \in SignalUniverse,
          rtspServer \in SignalUniverse :
        /\ fpIn' = [serverHdr |-> serverHdr, body |-> body, rtspServer |-> rtspServer]
        /\ fpOut' = detectBrand(serverHdr, body, rtspServer)
        /\ fpDetect' = DetectWithVersion(serverHdr, body, rtspServer)
    /\ FingerprintFrame

\* the caller takes the results
FingerprintDone ==
    /\ fpPc = "returned"
    /\ fpPc' = "idle"
    /\ fpIn' = [serverHdr |-> <<>>, body |-> <<>>, rtspServer |-> <<>>]
    /\ fpOut' = [brand |-> <<>>, note |-> <<>>]
    /\ fpDetect' = [Brand |-> <<>>, Method |-> "none"]
    /\ FingerprintFrame

(* ================== fingerprint: the detection cache ================== *)

\* OptimizedDetect, line 88: the cache key of the three signals
cacheKey(serverHdr, body, rtspServer) ==
    ToLower(serverHdr \o <<"|">> \o body \o <<"|">> \o rtspServer)

\* OptimizedCVEsForBrand, line 226: the cache key of a vendor
cveKey(lowerBrand) == <<"c","v","e","_">> \o lowerBrand

\* the signals OptimizedDetect is called with
DetectInputs ==
    {[serverHdr |-> S_hik, body |-> <<>>, rtspServer |-> <<>>],
     [serverHdr |-> S_pipeHead, body |-> <<>>, rtspServer |-> <<>>],
     [serverHdr |-> S_x, body |-> S_pipeTail, rtspServer |-> <<>>],
     [serverHdr |-> <<>>, body |-> <<>>, rtspServer |-> S_acme],
     [serverHdr |-> <<>>, body |-> <<>>, rtspServer |-> S_acmeLower]}

\* the vendors OptimizedCVEsForBrand is called with
CVEInputs == {Hikvision, ToLower(CPPlus)}

\* the goroutines calling into the package
Callers == 1..MaxCallers

\* OptimizedDetect, lines 91-96: the cached entry of a key, if any
cacheLookup(cache, key) ==
    IF key \in DOMAIN cache
    THEN [exists |-> TRUE, cached |-> cache[key]]
    ELSE [exists |-> FALSE, cached |-> [Brand |-> <<>>, Note |-> <<>>, CVEs |-> <<>>]]

\* OptimizedDetect, lines 99-108: the entry stored after a miss
detectEntry(in) ==
    LET found == detectBrand(in.serverHdr, in.body, in.rtspServer)
    IN [Brand |-> found.brand, Note |-> found.note,
        CVEs |-> ForBrand(ToLower(found.brand))]

\* OptimizedCVEsForBrand, lines 211-218: the keys of the entries of a vendor
cveMatches(cache, lowerBrand) ==
    {k \in DOMAIN cache : ToLower(cache[k].Brand) = lowerBrand}

\* the vendors a correlation can be asked for
CVEVendors == {brands[i] : i \in 1..Len(brands)} \cup {UnknownCam, S_acme}

\* what OptimizedCVEsForBrand can return for each vendor on a cache
CVEView(cache) ==
    [v \in CVEVendors |->
        IF cveMatches(cache, ToLower(v)) # {}
        THEN {cache[k].CVEs : k \in cveMatches(cache, ToLower(v))}
        ELSE {ForBrand(ToLower(v))}]

\* the signals of the OptimizedDetect calls that have returned
Detected == {e.in : e \in detectLog}

DetectFrame == UNCHANGED <<scanVars, hostVars, credVars, fpVars, rtspVars, pipeVars, mjpegVars,
        uniqVars, parseVars, verifyVars, metaVars, loginVars, cidrVars, filterVars, loadVars>>

InitDetect ==
    /\ brandCache = EmptyMap
    /\ dPc = [t \in Callers |-> "idle"]
    /\ dArgs = [t \in Callers |-> <<>>]
    /\ dCalls = 0
    /\ detectLog = {}
    /\ cveLog = {}
    /\ repeatChangedCVEs = FALSE

\* OptimizedDetect, lines 86-96: key, read lock, lookup; a hit returns
DetectLookup(t) ==
    /\ dPc[t] = "idle"
    /\ dCalls < MaxDetectCalls
    /\ dCalls' = dCalls + 1
    /\ \E in \in DetectInputs :
        LET hit == cacheLookup(brandCache, cacheKey(in.serverHdr, in.body, in.rtspServer))
        IN IF hit.exists
           THEN /\ detectLog' = detectLog \cup
                        {[in |-> in, brand |-> hit.cached.Brand, note |-> hit.cached.Note]}
                /\ UNCHANGED <<dPc, dArgs>>
           ELSE /\ dPc' = [dPc EXCEPT ![t] = "detect"]
                /\ dArgs' = [dArgs EXCEPT ![t] = in]
                /\ UNCHANGED detectLog
    /\ UNCHANGED <<brandCache, cveLog, repeatChangedCVEs>>
    /\ DetectFrame

\* OptimizedDetect, lines 99-110: detection, write lock, store, return
DetectStore(t) ==
    /\ dPc[t] = "detect"
    /\ LET in == dArgs[t]
           entry == detectEntry(in)
       IN /\ brandCache' = MapPut(brandCache,
                                  cacheKey(in.serverHdr, in.body, in.rtspServer), entry)
          /\ detectLog' = detectLog \cup
                 {[in |-> in, brand |-> entry.Brand, note |-> entry.Note]}
          /\ repeatChangedCVEs' =
                 (repeatChangedCVEs \/
                     (in \in Detected /\ CVEView(brandCache') # CVEView(brandCache)))
    /\ dPc' = [dPc EXCEPT ![t] = "idle"]
    /\ dArgs' = [dArgs EXCEPT ![t] = <<>>]
    /\ UNCHANGED <<dCalls, cveLog>>
    /\ DetectFrame

\* OptimizedCVEsForBrand, lines 206-219: scan of the cache under the read
\* lock; an entry of the vendor returns a copy of its list
CVELookup(t) ==
    /\ dPc[t] = "idle"
    /\ dCalls < MaxDetectCalls
    /\ dCalls' = dCalls + 1
    /\ \E brand \in CVEInputs :
        LET matches == cveMatches(brandCache, ToLower(brand))
        IN IF matches # {}
           THEN /\ \E k \in matches :
                      cveLog' = cveLog \cup {[brand |-> brand, cves |-> brandCache[k].CVEs]}
                /\ UNCHANGED <<dPc, dArgs>>
           ELSE /\ dPc' = [dPc EXCEPT ![t] = "cves"]
                /\ dArgs' = [dArgs EXCEPT ![t] = brand]
                /\ UNCHANGED cveLog
    /\ UNCHANGED <<brandCache, detectLog, repeatChangedCVEs>>
    /\ DetectFrame

\* OptimizedCVEsForBrand, lines 221-232: table lookup, store, return
CVEStore(t) ==
    /\ dPc[t] = "cves"
    /\ LET brand == dArgs[t]
           cves == ForBrand(ToLower(brand))
       IN /\ brandCache' = MapPut(brandCache, cveKey(ToLower(brand)),
                                  [Brand |-> brand, Note |-> <<>>, CVEs |-> cves])
          /\ cveLog' = cveLog \cup {[brand |-> brand, cves |-> cves]}
    /\ dPc' = [dPc EXCEPT ![t] = "idle"]
    /\ dArgs' = [dArgs EXCEPT ![t] = <<>>]
    /\ UNCHANGED <<dCalls, detectLog, repeatChangedCVEs>>
    /\ DetectFrame

(* ========================= probe: ProbeRTSP =========================== *)

\* RTSPInfo{}
NoRTSPInfo == [Any |-> FALSE, Server |-> <<>>, Public |-> <<>>]

\* the status lines an OPTIONS request is answered with; the last is a
\* connection that sends nothing before the deadline
RTSP_200 == <<"R","T","S","P","/","1",".","0"," ","2","0","0"," ","O","K">>
RTSP_401 == <<"R","T","S","P","/","1",".","0"," ","4","0","1"," ","U","n","a","u","t","h","o","r","i","z","e","d">>
RTSPStatusLines == {RTSP_200, RTSP_401, <<>>}

\* the header lines that follow the status line
RTSPHeaderLines ==
    {<<>>,
     <<<<"S","e","r","v","e","r",":"," ","D","a","h","u","a"," ","R","t","s","p">>>>,
     <<<<"p","u","b","l","i","c",":"," ","O","P","T","I","O","N","S">>,
       <<"S","e","r","v","e","r",":"," "," ","A","c","m","e">>,
       <<"S","e","r","v","e","r",":"," ","D","a","h","u","a"," ","R","t","s","p">>>>}

\* what one port does with the probe: the dial fails, or it sends a status
\* line and header lines
RTSPResponses ==
    {[dial |-> "err", status |-> <<>>, headers |-> <<>>]}
        \cup {[dial |-> "ok", status |-> s, headers |-> h] :
                 s \in RTSPStatusLines, h \in RTSPHeaderLines}

\* line[7:]
From7(line) == SubSeq(line, 8, Len(line))

\* ProbeRTSP, lines 100-111: the header loop, which ends at the first line
\* that is empty once trimmed
RECURSIVE rtspHeaders(_, _)
rtspHeaders(info, lines) ==
    IF lines = <<>> THEN info
    ELSE LET line == TrimSpace(Head(lines))
             l == ToLower(line)
             withServer ==
                 IF HasPrefix(l, <<"s","e","r","v","e","r",":">>) /\ info.Server = <<>>
                 THEN [info EXCEPT !.Server = TrimSpace(From7(line))]
                 ELSE info
             withPublic ==
                 IF HasPrefix(l, <<"p","u","b","l","i","c",":">>) /\ withServer.Public = <<>>
                 THEN [withServer EXCEPT !.Public = TrimSpace(From7(line))]
                 ELSE withServer
         IN IF line = <<>> THEN info ELSE rtspHeaders(withPublic, Tail(lines))

\* the body of the loop with the headers read whatever the status line is
rtspPort_anyStatus(info, resp) ==
    IF resp.dial = "err" THEN info
    ELSE rtspHeaders([info EXCEPT !.Any = HasPrefix(resp.status, <<"R","T","S","P","/","1",".","0"," ","2","0","0">>)],
                     resp.headers)

\* ProbeRTSP, lines 90-113: the body of the loop for one port
rtspPort(info, resp) ==
    IF resp.dial = "err" THEN info
    ELSE IF HasPrefix(resp.status, <<"R","T","S","P","/","1",".","0"," ","2","0","0">>)
         THEN rtspHeaders([info EXCEPT !.Any = TRUE], resp.headers)
         ELSE info

\* ProbeRTSP, lines 89-115: the loop over the ports, left at the first port
\* that set Any
RECURSIVE rtspLoop(_, _)
rtspLoop(info, responses) ==
    IF responses = <<>> THEN info
    ELSE LET next == rtspPort(info, Head(responses))
         IN IF next.Any THEN next ELSE rtspLoop(next, Tail(responses))

\* ProbeRTSP: responses[i] is what the i-th port of the list does
ProbeRTSP(responses) == rtspLoop(NoRTSPInfo, responses)

RTSPFrame == UNCHANGED <<scanVars, hostVars, credVars, fpVars, detectVars, pipeVars, mjpegVars,
        uniqVars, parseVars, verifyVars, metaVars, loginVars, cidrVars, filterVars, loadVars>>

InitRTSP ==
    /\ rtspPc = "idle"
    /\ rtspIn = <<>>
    /\ rtspOut = NoRTSPInfo

\* a call of ProbeRTSP on a list of ports
RTSPCall ==
    /\ rtspPc = "idle"
    /\ \E responses \in SeqsUpTo(RTSPResponses, MaxRtspPorts) :
          /\ rtspIn' = responses
          /\ rtspOut' = ProbeRTSP(responses)
    /\ rtspPc' = "returned"
    /\ RTSPFrame

\* the caller has used the result
RTSPDone ==
    /\ rtspPc = "returned"
    /\ rtspPc' = "idle"
    /\ rtspIn' = <<>>
    /\ rtspOut' = NoRTSPInfo
    /\ RTSPFrame

(* ================= processor: OptimizedProcessor.processHost ========== *)

\* FilterRTSP, line 80: the ports probed with RTSP
RTSPPortNumbers == {554, 8554, 10554, 1554, 2554, 3554, 4554, 5554, 6554, 7554, 9554}

\* isHTTPLikePort without the case of the RTSP ports
isHTTPLikePort_rtspToo(p) ==
    /\ p \notin {1935, 1936, 1937, 1938, 1939}
    /\ p \notin {3702, 37777}

\* isHTTPLikePort: every port except the RTSP, RTMP, ONVIF and DVR ports
isHTTPLikePort(p) ==
    /\ p \notin RTSPPortNumbers
    /\ p \notin {1935, 1936, 1937, 1938, 1939}
    /\ p \notin {3702, 37777}

FilterHTTPish(ports) == SelectSeq(ports, isHTTPLikePort)

FilterRTSP(ports) == SelectSeq(ports, LAMBDA p : p \in RTSPPortNumbers)

\* util.Uniq keeping the last occurrence of each element
RECURSIVE Uniq_keepLast(_)
Uniq_keepLast(in) ==
    IF in = <<>> THEN <<>>
    ELSE LET front == Uniq_keepLast(SubSeq(in, 1, Len(in) - 1))
             last == in[Len(in)]
         IN Append(SelectSeq(front, LAMBDA x : x # last), last)

\* util.Uniq: the first occurrence of each element, in order
RECURSIVE Uniq(_)
Uniq(in) ==
    IF in = <<>> THEN <<>>
    ELSE LET front == Uniq(SubSeq(in, 1, Len(in) - 1))
             last == in[Len(in)]
         IN IF \E i \in 1..Len(front) : front[i] = last THEN front
            ELSE Append(front, last)

\* FindLoginPages, line 115: the candidate paths
LoginPaths == <<"/", "/login", "/admin", "/viewer", "/webadmin", "/index.html">>

\* what a HEAD request is answered with: an error, or a status code and
\* whether the response carries a WWW-Authenticate header
HeadErr == [err |-> TRUE, StatusCode |-> 0, WWWAuthenticate |-> FALSE]
Head404 == [err |-> FALSE, StatusCode |-> 404, WWWAuthenticate |-> FALSE]
Head200Auth == [err |-> FALSE, StatusCode |-> 200, WWWAuthenticate |-> TRUE]
Head401 == [err |-> FALSE, StatusCode |-> 401, WWWAuthenticate |-> FALSE]

\* how a host answers the candidate paths, on each of its HTTP ports: every
\* path with 404; the root with 200 and a challenge and the rest with 404;
\* "/login" with 401 and no answer on the rest
LoginProfiles ==
    {[i \in 1..Len(LoginPaths) |-> Head404],
     [i \in 1..Len(LoginPaths) |-> IF LoginPaths[i] = "/" THEN Head200Auth ELSE Head404],
     [i \in 1..Len(LoginPaths) |-> IF LoginPaths[i] = "/login" THEN Head401 ELSE HeadErr]}

\* FindLoginPages that looks at the status code only
loginAppends_statusOnly(url, resp) ==
    IF resp.err THEN <<>>
    ELSE IF resp.StatusCode \in {200, 401, 403} THEN <<url>> ELSE <<>>

\* FindLoginPages, lines 128-137: what one response appends to out
loginAppends(url, resp) ==
    IF resp.err THEN <<>>
    ELSE (IF resp.StatusCode = 200 THEN <<url>> ELSE <<>>)
         \o (IF \/ resp.StatusCode = 401
                \/ resp.StatusCode = 403
                \/ resp.WWWAuthenticate
             THEN <<url>> ELSE <<>>)

\* FindLoginPages, lines 126-138: the loop over the paths of one port
RECURSIVE loginPathsFrom(_, _, _)
loginPathsFrom(port, profile, i) ==
    IF i > Len(LoginPaths) THEN <<>>
    ELSE loginAppends(<<port, LoginPaths[i]>>, profile[i])
         \o loginPathsFrom(port, profile, i + 1)

\* FindLoginPages, lines 123-139: the loop over the ports
RECURSIVE loginPortsFrom(_, _)
loginPortsFrom(ports, profile) ==
    IF ports = <<>> THEN <<>>
    ELSE loginPathsFrom(Head(ports), profile, 1) \o loginPortsFrom(Tail(ports), profile)

\* FindLoginPages: a URL is the pair of its port and its path
FindLoginPages(ports, profile) == Uniq(loginPortsFrom(ports, profile))

\* HTTPMeta{}
NoHTTPMeta == [Server |-> <<>>, BodySnippet |-> <<>>]

\* io.LimitReader(resp.Body, 512)
LimitReader512(b) == SubSeq(b, 1, IF Len(b) < 512 THEN Len(b) ELSE 512)

\* a byte of a response body that is not part of any UTF-8 encoding (the
\* bytes of an image, or of a page in a legacy code page)
InvalidByte == "xFF"

\* the UTF-8 encoding of U+FFFD, which strings.ToLower (strings.Map) writes
\* in place of every byte that is not valid UTF-8
ReplacementChar == <<"xEF", "xBF", "xBD">>

\* strings.Map(unicode.ToLower, s): every byte that is not valid UTF-8 is
\* written as U+FFFD, every other byte is lower-cased (the list is halved
\* to keep the evaluation shallow)
RECURSIVE mapToLower(_)
mapToLower(b) ==
    IF Len(b) = 0 THEN <<>>
    ELSE IF Len(b) = 1
         THEN (IF b[1] = InvalidByte THEN ReplacementChar ELSE <<ToLowerChar(b[1])>>)
    ELSE mapToLower(SubSeq(b, 1, Len(b) \div 2))
            \o mapToLower(SubSeq(b, Len(b) \div 2 + 1, Len(b)))

\* strings.ToLower on bytes: the ASCII fast path when every byte is ASCII,
\* strings.Map(unicode.ToLower, s) otherwise
ToLowerBytes(b) ==
    IF \A i \in 1..Len(b) : b[i] # InvalidByte THEN ToLower(b)
    ELSE mapToLower(b)

\* ProbeHTTPMeta, lines 101-107: what a response adds to meta
metaStep(meta, answer) ==
    LET withServer ==
            IF meta.Server = <<>> THEN [meta EXCEPT !.Server = answer.Server]
            ELSE meta
    IN IF withServer.BodySnippet = <<>>
       THEN [withServer EXCEPT
                !.BodySnippet = ToLowerBytes(LimitReader512(answer.Body))]
       ELSE withServer

\* ProbeHTTPMeta, line 109: the condition of the break
metaComplete(meta) == meta.Server # <<>> /\ meta.BodySnippet # <<>>

\* ProbeHTTPMeta, lines 93-110: the loop over the ports; answer is what GET /
\* is answered with on each HTTP port of the host
RECURSIVE metaLoop(_, _, _)
metaLoop(meta, ports, answer) ==
    IF ports = <<>> THEN meta
    ELSE IF answer.err THEN metaLoop(meta, Tail(ports), answer)
    ELSE LET withBody == metaStep(meta, answer)
         IN IF metaComplete(withBody) THEN withBody
            ELSE metaLoop(withBody, Tail(ports), answer)

ProbeHTTPMeta(ports, answer) == metaLoop(NoHTTPMeta, ports, answer)

\* what GET / is answered with
S_hikLower == <<"h","i","k","v","i","s","i","o","n","-","w","e","b","s">>
S_dvrUpper == <<"D","V","R">>
HTTPAnswers ==
    {[err |-> TRUE, Server |-> <<>>, Body |-> <<>>],
     [err |-> FALSE, Server |-> <<>>, Body |-> <<>>],
     [err |-> FALSE, Server |-> S_hik, Body |-> <<>>],
     [err |-> FALSE, Server |-> S_hikLower, Body |-> S_dvrUpper]}

\* what each RTSP port of a host does with the OPTIONS probe
HostRTSPResponses ==
    {[dial |-> "ok", status |-> s, headers |-> <<<<"S","e","r","v","e","r",":"," ","D","a","h","u","a"," ","R","t","s","p">>>>] :
        s \in {RTSP_200, RTSP_401}}

\* the file p.credsFile names
CredsFileStates == {"readable", "missing", "unreadable"}

\* os.IsNotExist(err) of os.Stat(p.credsFile)
StatIsNotExist(file) == file = "missing"

\* OptimizedBruteForce, lines 16-20 and 90: "" when the list cannot be
\* loaded, otherwise "" or the credential a URL accepted
NoCredential == ""
FoundCredential == "admin:admin"
BruteForceResults(file) ==
    IF file # "readable" THEN {NoCredential} ELSE {NoCredential, FoundCredential}

\* what the discovery port does with the probe datagram: the dial fails,
\* the write fails, no datagram arrives before the deadline, or a datagram
\* of n bytes arrives
ONVIFBehaviours ==
    {[dial |-> "err", write |-> "ok", read |-> "ok", n |-> 0],
     [dial |-> "ok", write |-> "err", read |-> "ok", n |-> 0],
     [dial |-> "ok", write |-> "ok", read |-> "timeout", n |-> 0],
     [dial |-> "ok", write |-> "ok", read |-> "ok", n |-> 0],
     [dial |-> "ok", write |-> "ok", read |-> "ok", n |-> 120]}

\* ProbeONVIF, lines 12-40
ProbeONVIF(b) ==
    IF b.dial = "err" THEN ""
    ELSE IF b.write = "err" THEN "write error: " \o "connection refused"
    ELSE IF b.read # "ok" THEN "read error: " \o "i/o timeout"
    ELSE IF b.n > 0 THEN "response " \o ToString(b.n) \o "B"
    ELSE ""

\* a request made with http.NewRequestWithContext(ctx, ...): client.Do fails
\* once the context is done
underContext(ctx, answer, failed) == IF ctx = "done" THEN failed ELSE answer

\* GET / that fails
MetaErr == [err |-> TRUE, Server |-> <<>>, Body |-> <<>>]

\* HEAD requests that all fail
LoginErr == [i \in 1..Len(LoginPaths) |-> HeadErr]

\* a host before any probe has reached it
NoEnv ==
    [ports |-> <<>>, http |-> MetaErr,
     rtsp |-> [dial |-> "err", status |-> <<>>, headers |-> <<>>],
     login |-> LoginErr, credsFile |-> "readable",
     onvif |-> [dial |-> "err", write |-> "ok", read |-> "ok", n |-> 0]]

\* the port lists of the hosts processHost is called for
HostPorts == {<<80>>, <<554>>, <<80, 554>>}

\* HostResult{Host: host, Ports: ports}
NewHostResult(ports) ==
    [Ports |-> ports, HTTPPorts |-> <<>>, RTSPPorts |-> <<>>, HTTPMeta |-> NoHTTPMeta,
     LoginPages |-> <<>>, RTSPInfo |-> NoRTSPInfo, ONVIFResult |-> "",
     MJPEGPaths |-> <<>>, Brand |-> <<>>, BrandNote |-> <<>>, CVEs |-> <<>>,
     Credentials |-> NoCredential]

\* OptimizedProbe: the five probe goroutines
ProbeGoroutines == {"meta", "login", "rtsp", "onvif", "mjpeg"}

\* the probe goroutines with two of them assigning the same field
probeField_shared(g) ==
    CASE g = "meta" -> "HTTPMeta"
      [] g = "login" -> "LoginPages"
      [] g = "rtsp" -> "RTSPInfo"
      [] g = "onvif" -> "ONVIFResult"
      [] g = "mjpeg" -> "LoginPages"

\* OptimizedProbe, lines 81, 88, 96, 104 and 112: the field of the result
\* each probe goroutine assigns
probeField(g) ==
    CASE g = "meta" -> "HTTPMeta"
      [] g = "login" -> "LoginPages"
      [] g = "rtsp" -> "RTSPInfo"
      [] g = "onvif" -> "ONVIFResult"
      [] g = "mjpeg" -> "MJPEGPaths"

\* no field has been assigned by a probe goroutine
NoWrites ==
    [f \in {"HTTPMeta", "LoginPages", "RTSPInfo", "ONVIFResult", "MJPEGPaths"} |-> <<>>]

\* PrintResults, lines 180-184: the line printed about the credentials
CredentialLine(r) ==
    IF r.Credentials # NoCredential THEN "Default credentials found"
    ELSE IF Len(r.LoginPages) > 0 THEN "No default credentials found"
    ELSE "nothing"

PipelineFrame ==
    UNCHANGED <<scanVars, hostVars, credVars, fpVars, rtspVars, mjpegVars, uniqVars, parseVars, verifyVars, metaVars, loginVars, cidrVars, filterVars, loadVars,
                dPc, dArgs, dCalls, detectLog, cveLog, repeatChangedCVEs>>

InitPipeline ==
    /\ pPc = "idle"
    /\ pCtx = "live"
    /\ pEnv = NoEnv
    /\ pPending = {}
    /\ pStartedLate = {}
    /\ pWrites = NoWrites
    /\ pResult = NewHostResult(<<>>)
    /\ pBruteCalls = <<>>
    /\ pSnapshot = "none"
    /\ pDone = 0

\* main, line 88: the deadline of the run passes
CtxDone ==
    /\ pCtx = "live"
    /\ pPc # "idle"
    /\ pCtx' = "done"
    /\ UNCHANGED <<pPc, pEnv, pPending, pStartedLate, pWrites, pResult, pBruteCalls,
                   pSnapshot, pDone, brandCache>>
    /\ PipelineFrame

\* processHost, lines 80-95, and OptimizedProbe, lines 67-75: the ports are
\* filtered and the probe goroutines started
PipelineStart ==
    /\ pPc \in {"idle", "returned"}
    /\ pDone < MaxPipelineHosts
    /\ \E ports \in HostPorts :
          /\ pEnv' = [NoEnv EXCEPT !.ports = ports]
          /\ pResult' = [NewHostResult(ports) EXCEPT
                            !.HTTPPorts = FilterHTTPish(ports),
                            !.RTSPPorts = FilterRTSP(ports)]
    /\ pPending' = ProbeGoroutines
    /\ pStartedLate' = {}
    /\ pWrites' = NoWrites
    /\ pPc' = "probing"
    /\ pBruteCalls' = <<>>
    /\ pSnapshot' = "none"
    /\ UNCHANGED <<pCtx, pDone, brandCache>>
    /\ PipelineFrame

\* a probe goroutine ends: wg.Done()
probeEnds(g, wrote) ==
    /\ pPc = "probing"
    /\ g \in pPending
    /\ pPending' = pPending \ {g}
    /\ pStartedLate' = IF pCtx = "done" THEN pStartedLate \cup {g} ELSE pStartedLate
    /\ pWrites' = IF wrote THEN [pWrites EXCEPT ![probeField(g)] = Append(@, g)]
                  ELSE pWrites
    /\ UNCHANGED <<pPc, pCtx, pBruteCalls, pSnapshot, pDone, brandCache>>
    /\ PipelineFrame

\* OptimizedProbe, lines 78-82
ProbeMeta ==
    /\ "meta" \in pPending
    /\ \E answer \in HTTPAnswers :
          /\ pEnv' = [pEnv EXCEPT !.http = answer]
          /\ pResult' = [pResult EXCEPT ![probeField("meta")] =
                ProbeHTTPMeta(pResult.HTTPPorts, underContext(pCtx, answer, MetaErr))]
    /\ probeEnds("meta", TRUE)

\* OptimizedProbe, lines 85-89
ProbeLogin ==
    /\ "login" \in pPending
    /\ \E profile \in LoginProfiles :
          /\ pEnv' = [pEnv EXCEPT !.login = profile]
          /\ pResult' = [pResult EXCEPT ![probeField("login")] =
                FindLoginPages(pResult.HTTPPorts, underContext(pCtx, profile, LoginErr))]
    /\ probeEnds("login", TRUE)

\* OptimizedProbe, lines 92-98: ProbeRTSP dials with net.DialTimeout and
\* takes no deadline from ctx
ProbeRtsp ==
    /\ "rtsp" \in pPending
    /\ IF Len(pResult.RTSPPorts) > 0
       THEN /\ \E resp \in HostRTSPResponses :
                  /\ pEnv' = [pEnv EXCEPT !.rtsp = resp]
                  /\ pResult' = [pResult EXCEPT ![probeField("rtsp")] =
                        ProbeRTSP([i \in 1..Len(pResult.RTSPPorts) |-> resp])]
            /\ probeEnds("rtsp", TRUE)
       ELSE /\ UNCHANGED <<pEnv, pResult>>
            /\ probeEnds("rtsp", FALSE)

\* OptimizedProbe, lines 101-105: ProbeONVIF dials with net.DialTimeout and
\* takes no deadline from ctx
ProbeOnvif ==
    /\ "onvif" \in pPending
    /\ \E b \in ONVIFBehaviours :
          /\ pEnv' = [pEnv EXCEPT !.onvif = b]
          /\ pResult' = [pResult EXCEPT ![probeField("onvif")] = ProbeONVIF(b)]
    /\ probeEnds("onvif", TRUE)

\* OptimizedProbe, lines 108-114: FindMJPEGPaths finds no stream or one
ProbeMjpeg ==
    /\ "mjpeg" \in pPending
    /\ IF Len(pResult.HTTPPorts) > 0
       THEN /\ \E found \in {<<>>, <<"/mjpg/video.mjpg">>} :
                  pResult' = [pResult EXCEPT ![probeField("mjpeg")] =
                                 underContext(pCtx, found, <<>>)]
            /\ probeEnds("mjpeg", TRUE)
       ELSE /\ UNCHANGED pResult
            /\ probeEnds("mjpeg", FALSE)
    /\ UNCHANGED pEnv

\* processHost, lines 103-107: the arguments of OptimizedDetect
detectSignals(r) ==
    [serverHdr |-> r.HTTPMeta.Server, body |-> r.HTTPMeta.BodySnippet,
     rtspServer |-> <<>>]

\* OptimizedProbe, line 116: wg.Wait() can return
probesDone(pending) == pending = {}

\* OptimizedProbe, line 116, and processHost, lines 96-107: once the probes
\* are done, OptimizedDetect returns the cached entry of the key or detects
\* and stores
PipelineDetect ==
    /\ pPc = "probing"
    /\ probesDone(pPending)
    /\ LET in == detectSignals(pResult)
           key == cacheKey(in.serverHdr, in.body, in.rtspServer)
           hit == cacheLookup(brandCache, key)
           entry == IF hit.exists THEN hit.cached ELSE detectEntry(in)
       IN /\ brandCache' = IF hit.exists THEN brandCache ELSE MapPut(brandCache, key, entry)
          /\ pResult' = [pResult EXCEPT !.Brand = entry.Brand, !.BrandNote = entry.Note]
    /\ pPc' = "detected"
    /\ pStartedLate' = {}
    /\ UNCHANGED <<pCtx, pEnv, pPending, pWrites, pBruteCalls, pSnapshot, pDone>>
    /\ PipelineFrame

\* processHost, lines 110-112: OptimizedCVEsForBrand returns the list of an
\* entry of the vendor, whichever the map iteration meets first, or looks
\* the vendor up and stores
PipelineCVEs ==
    /\ pPc = "detected"
    /\ IF pResult.Brand # <<>>
       THEN LET lowerBrand == ToLower(pResult.Brand)
                matches == cveMatches(brandCache, lowerBrand)
            IN IF matches # {}
               THEN /\ \E k \in matches :
                          pResult' = [pResult EXCEPT !.CVEs = brandCache[k].CVEs]
                    /\ UNCHANGED brandCache
               ELSE /\ pResult' = [pResult EXCEPT !.CVEs = ForBrand(lowerBrand)]
                    /\ brandCache' = MapPut(brandCache, cveKey(lowerBrand),
                                            [Brand |-> pResult.Brand, Note |-> <<>>,
                                             CVEs |-> ForBrand(lowerBrand)])
       ELSE UNCHANGED <<pResult, brandCache>>
    /\ pPc' = "correlated"
    /\ UNCHANGED <<pCtx, pEnv, pPending, pStartedLate, pWrites, pBruteCalls, pSnapshot, pDone>>
    /\ PipelineFrame

\* the credential step without the test on the login pages
credentialStepRuns_always(r, file) == ~StatIsNotExist(file)

\* processHost, lines 115-116: whether OptimizedBruteForce is called
credentialStepRuns(r, file) == Len(r.LoginPages) > 0 /\ ~StatIsNotExist(file)

\* processHost, lines 115-121: the requests of OptimizedBruteForce are made
\* with ctx
PipelineCreds ==
    /\ pPc = "correlated"
    /\ \E file \in CredsFileStates :
          /\ pEnv' = [pEnv EXCEPT !.credsFile = file]
          /\ IF credentialStepRuns(pResult, file)
             THEN /\ pBruteCalls' = Append(pBruteCalls, pResult.LoginPages)
                  /\ \E found \in BruteForceResults(file) :
                        pResult' = [pResult EXCEPT !.Credentials =
                                       underContext(pCtx, found, NoCredential)]
                  /\ pStartedLate' = IF pCtx = "done" THEN pStartedLate \cup {"creds"}
                                     ELSE pStartedLate
             ELSE UNCHANGED <<pResult, pBruteCalls, pStartedLate>>
    /\ pPc' = "tested"
    /\ UNCHANGED <<pCtx, pPending, pWrites, pSnapshot, pDone, brandCache>>
    /\ PipelineFrame

\* the snapshot goroutine started for every host
snapshotStarts_always(r) == TRUE

\* processHost, line 124: whether the TryMJPEG goroutine is started
snapshotStarts(r) == Len(r.HTTPPorts) > 0

\* processHost, lines 124-134: the snapshot goroutine is started on a host
\* with HTTP ports and the result returned
PipelineReturn ==
    /\ pPc = "tested"
    /\ pSnapshot' = IF snapshotStarts(pResult) THEN "running" ELSE "none"
    /\ pPc' = "returned"
    /\ pDone' = pDone + 1
    /\ UNCHANGED <<pCtx, pEnv, pPending, pStartedLate, pWrites, pResult, pBruteCalls,
                   brandCache>>
    /\ PipelineFrame

\* TryMJPEG, lines 20-50: the goroutine of the last host returned ends, with
\* a snapshot saved or without; nothing is reported to anyone
SnapshotEnds ==
    /\ pSnapshot = "running"
    /\ \E outcome \in {"saved", "nothing saved"} :
          pSnapshot' = underContext(pCtx, outcome, "nothing saved")
    /\ UNCHANGED <<pPc, pCtx, pEnv, pPending, pStartedLate, pWrites, pResult,
                   pBruteCalls, pDone, brandCache>>
    /\ PipelineFrame

(* ======================== probe: FindMJPEGPaths ======================= *)

\* len(MJPEGPaths)
MJPEGPathCount == 21

\* capacity of the port-level semaphore
MJPEGPortLimit == 5

MJPEGFrame ==
    UNCHANGED <<scanVars, hostVars, credVars, fpVars, detectVars, rtspVars, pipeVars,
                uniqVars, parseVars, verifyVars, metaVars, loginVars, cidrVars, filterVars, loadVars>>

InitMJPEG ==
    /\ mjPc = "idle"
    /\ mjServes = FALSE
    /\ mjPortPc = <<>>
    /\ mjLaunched = <<>>
    /\ mjInFlight = <<>>
    /\ mjSem = 0
    /\ mjWg = 0
    /\ mjFound = 0
    /\ mjResult = 0

\* FindMJPEGPaths, lines 137-142: one goroutine per port, wg.Add(1) for each;
\* the host answers every path with a 200 MJPEG response or none of them
MJPEGCall ==
    /\ mjPc = "idle"
    /\ \E n \in 0..MaxMjpegPorts :
          /\ mjPortPc' = [p \in 1..n |-> "acquire"]
          /\ mjLaunched' = [p \in 1..n |-> 0]
          /\ mjInFlight' = [p \in 1..n |-> 0]
          /\ mjWg' = n
    /\ mjServes' \in BOOLEAN
    /\ mjPc' = "wait"
    /\ mjFound' = 0
    /\ mjResult' = 0
    /\ UNCHANGED mjSem
    /\ MJPEGFrame

\* port goroutine, line 144: take a slot of the semaphore
MJPEGAcquire(p) ==
    /\ mjPortPc[p] = "acquire"
    /\ mjSem < MJPEGPortLimit
    /\ mjSem' = mjSem + 1
    /\ mjPortPc' = [mjPortPc EXCEPT ![p] = "spawn"]
    /\ UNCHANGED <<mjPc, mjServes, mjLaunched, mjInFlight, mjWg, mjFound, mjResult>>
    /\ MJPEGFrame

\* port goroutine, lines 155-161: the next path goroutine is started and
\* sends its HEAD request; after the last one the port goroutine waits on
\* pathWg. The path goroutines of a port are counted, not told apart
MJPEGSpawn(p) ==
    /\ mjPortPc[p] = "spawn"
    /\ mjLaunched' = [mjLaunched EXCEPT ![p] = @ + 1]
    /\ mjInFlight' = [mjInFlight EXCEPT ![p] = @ + 1]
    /\ mjPortPc' = [mjPortPc EXCEPT ![p] =
                       IF mjLaunched[p] + 1 = MJPEGPathCount THEN "wait" ELSE "spawn"]
    /\ UNCHANGED <<mjPc, mjServes, mjSem, mjWg, mjFound, mjResult>>
    /\ MJPEGFrame

\* path goroutine, lines 166-179: the request is answered or fails; a 200
\* answer with an MJPEG content type is appended to foundPaths
MJPEGAnswer(p) ==
    /\ mjInFlight[p] > 0
    /\ mjInFlight' = [mjInFlight EXCEPT ![p] = @ - 1]
    /\ mjFound' = IF mjServes THEN mjFound + 1 ELSE mjFound
    /\ UNCHANGED <<mjPc, mjServes, mjPortPc, mjLaunched, mjSem, mjWg, mjResult>>
    /\ MJPEGFrame

\* port goroutine, line 182 and the deferred calls: pathWg.Wait() returns,
\* the slot is released and wg.Done() called
MJPEGPortDone(p) ==
    /\ mjPortPc[p] = "wait"
    /\ mjInFlight[p] = 0
    /\ mjSem' = mjSem - 1
    /\ mjWg' = mjWg - 1
    /\ mjPortPc' = [mjPortPc EXCEPT ![p] = "done"]
    /\ UNCHANGED <<mjPc, mjServes, mjLaunched, mjInFlight, mjFound, mjResult>>
    /\ MJPEGFrame

\* FindMJPEGPaths, lines 186-187: wg.Wait() returns; the URLs of distinct
\* ports and paths are distinct, so util.Uniq keeps them all
MJPEGReturn ==
    /\ mjPc = "wait"
    /\ mjWg = 0
    /\ mjResult' = mjFound
    /\ mjPc' = "returned"
    /\ UNCHANGED <<mjServes, mjPortPc, mjLaunched, mjInFlight, mjSem, mjWg, mjFound>>
    /\ MJPEGFrame

\* the caller has used the result
MJPEGDone ==
    /\ mjPc = "returned"
    /\ mjPc' = "idle"
    /\ mjServes' = FALSE
    /\ mjPortPc' = <<>>
    /\ mjLaunched' = <<>>
    /\ mjInFlight' = <<>>
    /\ mjFound' = 0
    /\ mjResult' = 0
    /\ UNCHANGED <<mjSem, mjWg>>
    /\ MJPEGFrame

(* ============================= util: Uniq ============================= *)

\* the strings of the lists Uniq is called with
UniqStrings == {"a", "b", "c"}

UniqFrame ==
    UNCHANGED <<scanVars, hostVars, credVars, fpVars, detectVars, rtspVars, pipeVars,
                mjpegVars, parseVars, verifyVars, metaVars, loginVars, cidrVars, filterVars, loadVars>>

InitUniq ==
    /\ uqPc = "idle"
    /\ uqIn = <<>>
    /\ uqOut = <<>>
    /\ uqTwice = <<>>

\* a caller runs a list through Uniq, and the result through Uniq again
UniqCall ==
    /\ uqPc = "idle"
    /\ \E in \in SeqsUpTo(UniqStrings, MaxUniqLen) :
          /\ uqIn' = in
          /\ uqOut' = Uniq(in)
          /\ uqTwice' = Uniq(Uniq(in))
    /\ uqPc' = "returned"
    /\ UniqFrame

\* the caller has used the result
UniqDone ==
    /\ uqPc = "returned"
    /\ uqPc' = "idle"
    /\ uqIn' = <<>>
    /\ uqOut' = <<>>
    /\ uqTwice' = <<>>
    /\ UniqFrame

(* ============== portscan: MasscanScanner.parseMasscanOutput =========== *)

\* the output lines a masscan process can write: result lines in both
\* formats, progress and banner lines, and malformed result lines
L_empty == <<>>
L_comment == <<"#"," ","m","a","s","s","c","a","n">>
L_starting == <<"S","t","a","r","t","i","n","g"," ","m","a","s","s","c","a","n"," ","1",".","3",".","2">>
L_initiating == <<"I","n","i","t","i","a","t","i","n","g"," ","S","Y","N"," ","S","t","e","a","l","t","h"," ","S","c","a","n">>
L_scanning == <<"S","c","a","n","n","i","n","g"," ","1"," ","h","o","s","t","s">>
L_new80 == <<"D","i","s","c","o","v","e","r","e","d"," ","o","p","e","n"," ","p","o","r","t"," ","8","0","/","t","c","p"," ","o","n"," ","1","0",".","0",".","0",".","1">>
L_new554 == <<"D","i","s","c","o","v","e","r","e","d"," ","o","p","e","n"," ","p","o","r","t"," ","5","5","4","/","t","c","p"," ","o","n"," ","1","0",".","0",".","0",".","1">>
L_old80 == <<"o","p","e","n"," ","t","c","p"," ","8","0"," ","1","0",".","0",".","0",".","1"," ","1","2","3","4","5","6","7","8","9","0">>
L_old554 == <<"o","p","e","n"," ","t","c","p"," ","5","5","4"," ","1","0",".","1","2","7",".","1"," ","1","2","3","4","5","6","7","8","9","0">>
L_newZero == <<"D","i","s","c","o","v","e","r","e","d"," ","o","p","e","n"," ","p","o","r","t"," ","0","/","t","c","p"," ","o","n"," ","1","0",".","0",".","0",".","1">>
L_newNoHost == <<"D","i","s","c","o","v","e","r","e","d"," ","o","p","e","n"," ","p","o","r","t"," ","8","0","/","t","c","p"," ","o","n"," ">>
L_oldUdp == <<"o","p","e","n"," ","u","d","p"," ","5","3"," ","1","0",".","0",".","0",".","1"," ","1","2","3","4","5","6","7","8","9","0">>
L_oldShort == <<"o","p","e","n"," ","t","c","p"," ","8","0">>
L_rate == <<"r","a","t","e",":"," "," ","0",".","1","0","-","k","p","p","s",","," ","1","0","0",".","0","0","%"," ","d","o","n","e">>
\* a result line the way masscan pads it to cover its status line
L_new80Padded == <<"D","i","s","c","o","v","e","r","e","d"," ","o","p","e","n"," ","p","o","r","t"," ","8","0","/","t","c","p"," ","o","n"," ","1","0",".","0",".","0",".","1"," "," ">>

MasscanLines ==
    {L_empty, L_comment, L_starting, L_initiating, L_scanning, L_new80,
     L_new554, L_old80, L_old554, L_newZero, L_newNoHost, L_oldUdp,
     L_oldShort, L_rate, L_new80Padded}

\* Go's s[lo:hi]
Slice(s, lo, hi) == SubSeq(s, lo + 1, hi)

\* strings.Index: the offset of the first occurrence of sub in s, or -1
Index(s, sub) ==
    LET hits == {i \in 0..(Len(s) - Len(sub)) : Slice(s, i, i + Len(sub)) = sub}
    IN IF hits = {} THEN -1 ELSE CHOOSE i \in hits : \A j \in hits : i <= j

DigitChars == {"0", "1", "2", "3", "4", "5", "6", "7", "8", "9"}

DigitValue(ch) ==
    CHOOSE d \in 0..9 : <<"0", "1", "2", "3", "4", "5", "6", "7", "8", "9">>[d + 1] = ch

RECURSIVE digitsValue(_, _)
digitsValue(s, acc) ==
    IF s = <<>> THEN acc
    ELSE digitsValue(Tail(s), acc * 10 + DigitValue(Head(s)))

\* strconv.Atoi: an optional sign followed by decimal digits
Atoi(s) ==
    LET signed == s # <<>> /\ Head(s) \in {"+", "-"}
        body == IF signed THEN Tail(s) ELSE s
    IN IF body = <<>> \/ \E i \in 1..Len(body) : body[i] \notin DigitChars
       THEN [n |-> 0, err |-> TRUE]
       ELSE [n |-> IF signed /\ Head(s) = "-"
                   THEN 0 - digitsValue(body, 0) ELSE digitsValue(body, 0),
             err |-> FALSE]

\* the white space strings.Fields splits on that a line can hold
Whitespace == {" ", "\t"}

RECURSIVE fieldsFrom(_, _, _)
fieldsFrom(s, cur, acc) ==
    IF s = <<>> THEN (IF cur = <<>> THEN acc ELSE Append(acc, cur))
    ELSE IF Head(s) \in Whitespace
         THEN fieldsFrom(Tail(s), <<>>, IF cur = <<>> THEN acc ELSE Append(acc, cur))
         ELSE fieldsFrom(Tail(s), Append(cur, Head(s)), acc)

\* strings.Fields
Fields(s) == fieldsFrom(s, <<>>, <<>>)

\* what the two line parsers return for a line they reject
NoPort == [port |-> 0, host |-> <<>>]

DiscoveredPrefix == <<"D","i","s","c","o","v","e","r","e","d"," ","o","p","e","n"," ","p","o","r","t">>

\* MasscanScanner.parseDiscoveredPort
parseDiscoveredPort(line) ==
    LET start == Len(DiscoveredPrefix) + 1
        rest == Slice(line, start, Len(line))
        slashPos == Index(rest, <<"/","t","c","p">>)
        port == Atoi(Slice(line, start, start + slashPos))
        onPos == Index(line, <<" ","o","n"," ">>)
    IN IF Len(line) <= start THEN NoPort
       ELSE IF slashPos = -1 THEN NoPort
       ELSE IF port.err THEN NoPort
       ELSE IF onPos = -1 THEN NoPort
       ELSE [port |-> port.n, host |-> Slice(line, onPos + 4, Len(line))]

\* MasscanScanner.parseOldFormat
parseOldFormat(line) ==
    LET parts == Fields(line) IN
    IF Len(parts) < 4 \/ parts[1] # <<"o","p","e","n">> \/ parts[2] # <<"t","c","p">> THEN NoPort
    ELSE LET port == Atoi(parts[3]) IN
         IF port.err THEN NoPort ELSE [port |-> port.n, host |-> parts[4]]

SkipPrefixes == {<<"#">>, <<"S","t","a","r","t","i","n","g"," ","m","a","s","s","c","a","n">>, <<"I","n","i","t","i","a","t","i","n","g">>, <<"S","c","a","n","n","i","n","g">>}

\* parseMasscanOutput, lines 150-167: the lines skipped before any parsing
skipLine(line) ==
    \/ Len(line) = 0
    \/ line[1] = "#"
    \/ \E prefix \in SkipPrefixes : HasPrefix(line, prefix)

\* parseMasscanOutput without the port > 0 && host != "" conditions
acceptParsed_any(parsed) == TRUE

\* parseMasscanOutput, lines 171 and 179: port > 0 && host != ""
acceptParsed(parsed) == parsed.port > 0 /\ parsed.host # <<>>

\* parseMasscanOutput, lines 147-186: the body of the loop for one line
parseLine(line, res) ==
    IF skipLine(line) THEN res
    ELSE IF Len(line) > Len(DiscoveredPrefix) /\ HasPrefix(line, DiscoveredPrefix)
         THEN LET parsed == parseDiscoveredPort(line) IN
              IF acceptParsed(parsed)
              THEN AppendPort(res, parsed.host, parsed.port) ELSE res
    ELSE IF Len(line) > 4 /\ Slice(line, 0, 4) = <<"o","p","e","n">>
         THEN LET parsed == parseOldFormat(line) IN
              IF acceptParsed(parsed)
              THEN AppendPort(res, parsed.host, parsed.port) ELSE res
    ELSE res

RECURSIVE parseFrom(_, _)
parseFrom(lines, res) ==
    IF lines = <<>> THEN res
    ELSE parseFrom(Tail(lines), parseLine(Head(lines), res))

\* MasscanScanner.parseMasscanOutput on the lines read from stdout
parseMasscanOutput(lines) == parseFrom(lines, EmptyMap)

MasscanParseFrame ==
    UNCHANGED <<scanVars, hostVars, credVars, fpVars, detectVars, rtspVars, pipeVars,
                mjpegVars, uniqVars, verifyVars, metaVars, loginVars, cidrVars, filterVars, loadVars>>

InitMasscanParse ==
    /\ mpPc = "idle"
    /\ mpLines = <<>>
    /\ mpOut = EmptyMap

\* MasscanScanner.Scan, line 103: the output of the started process is parsed
MasscanParseCall ==
    /\ mpPc = "idle"
    /\ \E lines \in SeqsUpTo(MasscanLines, MaxLines) :
          /\ mpLines' = lines
          /\ mpOut' = parseMasscanOutput(lines)
    /\ mpPc' = "returned"
    /\ MasscanParseFrame

\* MasscanScanner.Scan, lines 105-113: the map is handed to the caller
MasscanParseDone ==
    /\ mpPc = "returned"
    /\ mpPc' = "idle"
    /\ mpLines' = <<>>
    /\ mpOut' = EmptyMap
    /\ MasscanParseFrame

(* ========================= verify: TCPVerifier ======================== *)

\* the hosts and port lists VerifyMap is called with
VerifyHosts == {T_external, T_midloop}

VerifyPortLists == {<<>>, <<80>>, <<554, 80>>}

\* the maps VerifyMap is called with
VerifyInputs ==
    UNION {[hs -> VerifyPortLists] : hs \in SUBSET VerifyHosts}

\* the addresses Verify dials for a map
VerifyAddrs(in) == {<<h, p>> : h \in DOMAIN in, p \in PortUniverse}

\* the network: for each address, the first dial attempt that succeeds,
\* 0 when none does
DialOutcomes(in) == [VerifyAddrs(in) -> 0..(MaxRetries + 1)]

\* NewTCPVerifier: the retries of the verifier
RetryChoices == 0..MaxRetries

\* TCPVerifier.try, lines 38-46: the loop from i on; attempt i+1 is the dial
\* made with loop index i
RECURSIVE tryFrom(_, _, _)
tryFrom(i, retries, firstSuccess) ==
    IF i > retries THEN [open |-> FALSE, attempts |-> i]
    ELSE IF firstSuccess = i + 1 THEN [open |-> TRUE, attempts |-> i + 1]
    ELSE tryFrom(i + 1, retries, firstSuccess)

\* try that gives up after the first attempt
tryDial_once(retries, firstSuccess) == tryFrom(0, 0, firstSuccess)

\* TCPVerifier.try: whether the port is reported open, and the dials made
tryDial(retries, firstSuccess) == tryFrom(0, retries, firstSuccess)

\* TCPVerifier.try: the value returned
try(retries, firstSuccess) == tryDial(retries, firstSuccess).open

\* sort.Ints on a list
RECURSIVE SortInts(_)
SortInts(s) ==
    IF s = <<>> THEN <<>>
    ELSE LET sorted == SortInts(Tail(s))
             k == Cardinality({i \in 1..Len(sorted) : sorted[i] <= Head(s)})
         IN SubSeq(sorted, 1, k) \o <<Head(s)>> \o SubSeq(sorted, k + 1, Len(sorted))

RECURSIVE verifyFrom(_, _, _, _)
verifyFrom(host, ports, retries, dials) ==
    IF ports = <<>> THEN <<>>
    ELSE LET okRest == verifyFrom(host, Tail(ports), retries, dials) IN
         IF try(retries, dials[<<host, Head(ports)>>])
         THEN <<Head(ports)>> \o okRest ELSE okRest

\* TCPVerifier.Verify
Verify(host, ports, retries, dials) == SortInts(verifyFrom(host, ports, retries, dials))

\* VerifyMap that stores the result of every host
keepVerified_always(res) == TRUE

\* TCPVerifier.VerifyMap, line 32: len(res)>0
keepVerified(res) == Len(res) > 0

\* TCPVerifier.VerifyMap
VerifyMap(in, retries, dials) ==
    LET kept == {h \in DOMAIN in : keepVerified(Verify(h, in[h], retries, dials))}
    IN [h \in kept |-> Verify(h, in[h], retries, dials)]

VerifyMapFrame ==
    UNCHANGED <<scanVars, hostVars, credVars, fpVars, detectVars, rtspVars, pipeVars,
                mjpegVars, uniqVars, parseVars, metaVars, loginVars, cidrVars, filterVars, loadVars>>

InitVerifyMap ==
    /\ vmPc = "idle"
    /\ vmIn = EmptyMap
    /\ vmRetries = 0
    /\ vmDials = <<>>
    /\ vmOut = EmptyMap
    /\ vmVerified = EmptyMap
    /\ vmAttempts = <<>>

\* a caller runs a discovery map through VerifyMap
VerifyMapCall ==
    /\ vmPc = "idle"
    /\ \E in \in VerifyInputs, retries \in RetryChoices :
        \E dials \in DialOutcomes(in) :
          /\ vmIn' = in
          /\ vmRetries' = retries
          /\ vmDials' = dials
          /\ vmOut' = VerifyMap(in, retries, dials)
          /\ vmVerified' = [h \in DOMAIN in |-> Verify(h, in[h], retries, dials)]
          /\ vmAttempts' =
                [a \in {<<h, p>> \in VerifyAddrs(in) : p \in Range(in[h])} |->
                    tryDial(retries, dials[a]).attempts]
    /\ vmPc' = "returned"
    /\ VerifyMapFrame

\* the caller has used the result
VerifyMapDone ==
    /\ vmPc = "returned"
    /\ vmPc' = "idle"
    /\ vmIn' = EmptyMap
    /\ vmRetries' = 0
    /\ vmDials' = <<>>
    /\ vmOut' = EmptyMap
    /\ vmVerified' = EmptyMap
    /\ vmAttempts' = <<>>
    /\ VerifyMapFrame

(* ======================== probe: ProbeHTTPMeta ======================== *)

\* the HTTP-capable ports ProbeHTTPMeta is called with
MetaPorts == {80, 8080}

\* a body of bytes that are not UTF-8, longer than the reader's limit
BinaryBody == [i \in 1..600 |-> InvalidByte]

\* what GET / is answered with on one port: an error, or a Server header
\* (possibly absent) and a body (possibly empty)
MetaAnswers ==
    {[err |-> TRUE, Server |-> <<>>, Body |-> <<>>],
     [err |-> FALSE, Server |-> <<>>, Body |-> <<>>],
     [err |-> FALSE, Server |-> S_hik, Body |-> <<>>],
     [err |-> FALSE, Server |-> <<>>, Body |-> S_dvrUpper],
     [err |-> FALSE, Server |-> S_hikLower, Body |-> <<"<","h","t","m","l",">">>],
     [err |-> FALSE, Server |-> S_hikLower, Body |-> BinaryBody]}

HTTPMetaFrame ==
    UNCHANGED <<scanVars, hostVars, credVars, fpVars, detectVars, rtspVars, pipeVars,
                mjpegVars, uniqVars, parseVars, verifyVars, loginVars, cidrVars, filterVars, loadVars>>

InitHTTPMeta ==
    /\ hmPc = "idle"
    /\ hmPorts = <<>>
    /\ hmAnswers = <<>>
    /\ hmNext = 0
    /\ hmMeta = NoHTTPMeta
    /\ hmGets = <<>>

\* ProbeHTTPMeta, lines 83-92: entry
HTTPMetaCall ==
    /\ hmPc = "idle"
    /\ \E ports \in SeqsUpTo(MetaPorts, MaxMetaPorts) :
        \E answers \in [1..Len(ports) -> MetaAnswers] :
            /\ hmPorts' = ports
            /\ hmAnswers' = answers
    /\ hmNext' = 1
    /\ hmMeta' = NoHTTPMeta
    /\ hmGets' = <<>>
    /\ hmPc' = "loop"
    /\ HTTPMetaFrame

\* ProbeHTTPMeta, lines 93-109: one iteration of the loop over the ports
HTTPMetaGet ==
    /\ hmPc = "loop"
    /\ hmNext <= Len(hmPorts)
    /\ hmGets' = Append(hmGets, hmPorts[hmNext])
    /\ LET answer == hmAnswers[hmNext] IN
       IF answer.err
       THEN /\ hmNext' = hmNext + 1
            /\ UNCHANGED <<hmMeta, hmPc>>
       ELSE /\ hmMeta' = metaStep(hmMeta, answer)
            /\ IF metaComplete(metaStep(hmMeta, answer))
               THEN hmPc' = "returned" /\ UNCHANGED hmNext
               ELSE hmNext' = hmNext + 1 /\ UNCHANGED hmPc
    /\ UNCHANGED <<hmPorts, hmAnswers>>
    /\ HTTPMetaFrame

\* ProbeHTTPMeta, lines 93 and 111: the port list is exhausted
HTTPMetaReturn ==
    /\ hmPc = "loop"
    /\ hmNext > Len(hmPorts)
    /\ hmPc' = "returned"
    /\ UNCHANGED <<hmPorts, hmAnswers, hmNext, hmMeta, hmGets>>
    /\ HTTPMetaFrame

\* the caller has taken the metadata
HTTPMetaDone ==
    /\ hmPc = "returned"
    /\ hmPc' = "idle"
    /\ hmPorts' = <<>>
    /\ hmAnswers' = <<>>
    /\ hmNext' = 0
    /\ hmMeta' = NoHTTPMeta
    /\ hmGets' = <<>>
    /\ HTTPMetaFrame

(* ============ probe: FindLoginPages, OptimizedLoginPageFinder ========= *)

\* the ports the login-page probes are called with
LoginPorts == {80, 8080}

\* httpmeta.go, lines 38-43
CameraPaths ==
    <<"/", "/1", "/admin", "/login", "/viewer", "/webadmin", "/video", "/stream",
      "/live", "/snapshot", "/onvif-http/snapshot", "/system.ini", "/config",
      "/setup", "/cgi-bin/", "/api/", "/camera", "/img/main.cgi", "/index.html",
      "/onvif/device_service", "/onvif/streaming", "/axis-cgi/mjpg/video.cgi",
      "/axis-cgi/com/ptz.cgi", "/axis-cgi/param.cgi", "/cgi-bin/snapshot.cgi",
      "/cgi-bin/hi3510/snap.cgi", "/videostream.cgi", "/mjpg/video.mjpg">>

\* what a HEAD request can be answered with
HeadResponses ==
    {HeadErr, Head404, Head200Auth, Head401,
     [err |-> FALSE, StatusCode |-> 200, WWWAuthenticate |-> FALSE],
     [err |-> FALSE, StatusCode |-> 403, WWWAuthenticate |-> FALSE],
     [err |-> FALSE, StatusCode |-> 302, WWWAuthenticate |-> TRUE]}

\* how a host answers the paths of a list: "/" and "/login" as given, no
\* answer on the rest
loginProfile(paths, root, login) ==
    [i \in 1..Len(paths) |->
        IF paths[i] = "/" THEN root
        ELSE IF paths[i] = "/login" THEN login ELSE HeadErr]

\* OptimizedLoginPageFinder, lines 279-296: what one request appends
optimizedAppends(url, resp) ==
    IF resp.err THEN <<>>
    ELSE IF \/ resp.StatusCode = 200
            \/ resp.StatusCode = 401
            \/ resp.StatusCode = 403
            \/ resp.WWWAuthenticate
         THEN <<url>> ELSE <<>>

RECURSIVE optimizedPathsFrom(_, _, _)
optimizedPathsFrom(port, profile, i) ==
    IF i > Len(CameraPaths) THEN <<>>
    ELSE optimizedAppends(<<port, CameraPaths[i]>>, profile[i])
         \o optimizedPathsFrom(port, profile, i + 1)

\* OptimizedLoginPageFinder, lines 258-301: the appends of all requests, in
\* the order the goroutines are started
RECURSIVE optimizedPortsFrom(_, _)
optimizedPortsFrom(ports, profile) ==
    IF ports = <<>> THEN <<>>
    ELSE optimizedPathsFrom(Head(ports), profile, 1)
         \o optimizedPortsFrom(Tail(ports), profile)

\* the orders in which concurrent goroutines can perform the given appends
Orderings(appends) ==
    {order \in [1..Len(appends) -> Range(appends)] :
        \A x \in Range(appends) :
            Cardinality({i \in 1..Len(appends) : order[i] = x})
                = Cardinality({i \in 1..Len(appends) : appends[i] = x})}

\* OptimizedLoginPageFinder: what it can return
OptimizedLoginPageFinder(ports, profile) ==
    {Uniq(order) : order \in Orderings(optimizedPortsFrom(ports, profile))}

LoginFrame ==
    UNCHANGED <<scanVars, hostVars, credVars, fpVars, detectVars, rtspVars, pipeVars,
                mjpegVars, uniqVars, parseVars, verifyVars, metaVars, cidrVars, filterVars, loadVars>>

InitLogin ==
    /\ lfPc = "idle"
    /\ lfFinder = "none"
    /\ lfPorts = <<>>
    /\ lfProfile = <<>>
    /\ lfOut = <<>>

\* OptimizedProbe, line 88: FindLoginPages on the HTTP ports of a host
FindLoginPagesCall ==
    /\ lfPc = "idle"
    /\ \E ports \in SeqsUpTo(LoginPorts, MaxLoginPorts), root, login \in HeadResponses :
        LET profile == loginProfile(LoginPaths, root, login) IN
        /\ lfPorts' = ports
        /\ lfProfile' = profile
        /\ lfOut' = FindLoginPages(ports, profile)
    /\ lfFinder' = "sequential"
    /\ lfPc' = "returned"
    /\ LoginFrame

\* a caller runs OptimizedLoginPageFinder on the HTTP ports of a host
OptimizedLoginCall ==
    /\ lfPc = "idle"
    /\ \E ports \in SeqsUpTo(LoginPorts, MaxLoginPorts), root, login \in HeadResponses :
        LET profile == loginProfile(CameraPaths, root, login) IN
        /\ lfPorts' = ports
        /\ lfProfile' = profile
        /\ lfOut' \in OptimizedLoginPageFinder(ports, profile)
    /\ lfFinder' = "optimized"
    /\ lfPc' = "returned"
    /\ LoginFrame

\* the caller has taken the list
LoginDone ==
    /\ lfPc = "returned"
    /\ lfPc' = "idle"
    /\ lfFinder' = "none"
    /\ lfPorts' = <<>>
    /\ lfProfile' = <<>>
    /\ lfOut' = <<>>
    /\ LoginFrame

(* ====================== targets: FromArgsOrFile ======================= *)

RECURSIVE Pow2(_)
Pow2(n) == IF n = 0 THEN 1 ELSE 2 * Pow2(n - 1)

\* the values of an octet (net.IP of IPv4 has 4 octets of 8 bits; the model
\* has 3 octets of OctetBits bits, which keeps the carry between octets and
\* the wrap-around of the last carry in a smaller address space)
OctetValues == Pow2(OctetBits)

\* the number of addresses
AddrSpace == OctetValues * OctetValues * OctetValues

\* the addresses
Addrs == [1..3 -> 0..(OctetValues - 1)]

\* the prefix lengths of a valid CIDR target: 0 is the whole address space,
\* PrefixBits a single address
PrefixBits == 3 * OctetBits

\* the number an address stands for
AddrValue(ip) == (ip[1] * OctetValues + ip[2]) * OctetValues + ip[3]

\* the address a number stands for
AddrOf(v) ==
    <<v \div (OctetValues * OctetValues), (v \div OctetValues) % OctetValues,
      v % OctetValues>>

\* ip.Mask(mask): the host bits cleared
MaskIP(ip, prefix) ==
    LET hostSize == Pow2(PrefixBits - prefix)
    IN AddrOf((AddrValue(ip) \div hostSize) * hostSize)

\* net.ParseCIDR: the network of "base/prefix"
ParseCIDR(base, prefix) == [IP |-> MaskIP(base, prefix), prefix |-> prefix]

\* IPNet.Contains
ipnetContains(ipnet, ip) == MaskIP(ip, ipnet.prefix) = ipnet.IP

\* incIP, lines 119-122: the loop from octet j down
RECURSIVE incFrom(_, _)
incFrom(ip, j) ==
    IF j = 0 THEN ip
    ELSE LET next == [ip EXCEPT ![j] = (ip[j] + 1) % OctetValues]
         IN IF next[j] # 0 THEN next ELSE incFrom(next, j - 1)

\* incIP
incIP(ip) == incFrom(ip, Len(ip))

CIDRFrame ==
    UNCHANGED <<scanVars, hostVars, credVars, fpVars, detectVars, rtspVars, pipeVars,
                mjpegVars, uniqVars, parseVars, verifyVars, metaVars, loginVars, filterVars, loadVars>>

InitCIDR ==
    /\ cdPc = "idle"
    /\ cdNet = [IP |-> AddrOf(0), prefix |-> 0]
    /\ cdIp = AddrOf(0)
    /\ cdOut = <<>>
    /\ cdResult = <<>>

\* FromArgsOrFile, lines 99-101: a CIDR target is parsed and the loop over
\* its addresses starts at the network address
CIDRCall ==
    /\ cdPc = "idle"
    /\ \E base \in Addrs, prefix \in 0..PrefixBits :
        LET ipnet == ParseCIDR(base, prefix) IN
        /\ cdNet' = ipnet
        /\ cdIp' = MaskIP(ipnet.IP, ipnet.prefix)
    /\ cdOut' = <<>>
    /\ cdResult' = <<>>
    /\ cdPc' = "loop"
    /\ CIDRFrame

\* FromArgsOrFile, lines 101-103: one iteration of the loop (the model keeps
\* the first MaxAppends addresses of out; the loop goes on beyond them)
CIDRAppend ==
    /\ cdPc = "loop"
    /\ ipnetContains(cdNet, cdIp)
    /\ cdOut' = IF Len(cdOut) < MaxAppends THEN Append(cdOut, cdIp) ELSE cdOut
    /\ cdIp' = incIP(cdIp)
    /\ UNCHANGED <<cdPc, cdNet, cdResult>>
    /\ CIDRFrame

\* FromArgsOrFile, lines 101 and 112: the loop ends and Uniq(out) is returned
CIDRReturn ==
    /\ cdPc = "loop"
    /\ ~ipnetContains(cdNet, cdIp)
    /\ cdResult' = Uniq(cdOut)
    /\ cdPc' = "returned"
    /\ UNCHANGED <<cdNet, cdIp, cdOut>>
    /\ CIDRFrame

\* the caller has taken the targets
CIDRDone ==
    /\ cdPc = "returned"
    /\ cdPc' = "idle"
    /\ cdNet' = [IP |-> AddrOf(0), prefix |-> 0]
    /\ cdIp' = AddrOf(0)
    /\ cdOut' = <<>>
    /\ cdResult' = <<>>
    /\ CIDRFrame

(* ================ processor: processHost, port filtering ============== *)

\* the ports a host has open: web ports, RTSP ports, an RTMP port, the ONVIF
\* discovery port and the DVR port
FilterPortUniverse == {80, 443, 554, 8554, 1935, 3702, 37777}

\* the port lists processHost is called with
FilterPortLists == SeqsUpTo(FilterPortUniverse, MaxFilterPorts)

FilterFrame == UNCHANGED <<scanVars, hostVars, credVars, fpVars, detectVars, rtspVars, pipeVars,
                mjpegVars, uniqVars, parseVars, verifyVars, metaVars, loginVars, cidrVars, loadVars>>

InitFilter ==
    /\ pfPc = "idle"
    /\ pfPorts = <<>>
    /\ pfHTTP = <<>>
    /\ pfRTSP = <<>>

\* processHost, lines 80-92: the record of the host gets its ports and the
\* two filtered lists
FilterPortsCall ==
    /\ pfPc = "idle"
    /\ \E ports \in FilterPortLists :
          /\ pfPorts' = ports
          /\ pfHTTP' = FilterHTTPish(ports)
          /\ pfRTSP' = FilterRTSP(ports)
    /\ pfPc' = "filtered"
    /\ FilterFrame

\* the record is handed on
FilterPortsDone ==
    /\ pfPc = "filtered"
    /\ pfPc' = "idle"
    /\ pfPorts' = <<>>
    /\ pfHTTP' = <<>>
    /\ pfRTSP' = <<>>
    /\ FilterFrame

(* ===================== credbrute: loadCredentials ===================== *)

\* the paths a credential file is loaded from
CredPaths == {"creds.txt", "other.txt"}

F_comment == <<"#","c">>
F_padded == <<" ","r",":","s"," ">>
F_blank == <<" ">>
\* the lines of a credential file
FileLines == {C_admin, F_padded, F_comment, F_blank}

\* os.Open fails
MissingFile == [state |-> "missing", lines |-> <<>>]

\* a credential file: one that cannot be opened, one that is read to its
\* end, or one whose reading fails after the lines given (an I/O error, or
\* a next line longer than the scanner's buffer)
CredFiles ==
    {MissingFile}
        \cup {[state |-> st, lines |-> l] :
                 st \in {"complete", "broken"}, l \in SeqsUpTo(FileLines, MaxFileLines)}

\* loadCredentials, line 127: the line is kept
keepsLine(line) == line # <<>> /\ ~HasPrefix(line, <<"#">>)

\* loadCredentials, lines 123-130: the lines kept of those the scanner read
scanLines(lines) ==
    SelectSeq([i \in 1..Len(lines) |-> TrimSpace(lines[i])], keepsLine)

\* credCache before the first load
NoCredCache == [creds |-> <<>>, file |-> ""]

\* loadCredentials: the list and the error returned and the cache left
loadCredentials(cache, credFile, file) ==
    IF cache.file = credFile /\ Len(cache.creds) > 0
    THEN [creds |-> cache.creds, err |-> FALSE, cache |-> cache]
    ELSE IF file.state = "missing"
    THEN [creds |-> <<>>, err |-> TRUE, cache |-> cache]
    ELSE LET kept == scanLines(file.lines)
         IN [creds |-> kept, err |-> (file.state = "broken"),
             cache |-> [creds |-> kept, file |-> credFile]]

LoadFrame == UNCHANGED <<scanVars, hostVars, credVars, fpVars, detectVars, rtspVars, pipeVars,
                mjpegVars, uniqVars, parseVars, verifyVars, metaVars, loginVars, cidrVars,
                filterVars>>

InitLoad ==
    /\ lcPc = "idle"
    /\ lcFiles = EmptyMap
    /\ credCache = NoCredCache
    /\ lcLog = <<>>

\* the credential files of the run; they are not changed afterwards
CredFilesGiven ==
    /\ lcPc = "idle"
    /\ lcFiles' \in [CredPaths -> CredFiles]
    /\ lcPc' = "ready"
    /\ UNCHANGED <<credCache, lcLog>>
    /\ LoadFrame

\* loadCredentials, lines 107-139
LoadCall ==
    /\ lcPc = "ready"
    /\ Len(lcLog) < MaxLoads
    /\ \E credFile \in CredPaths :
          LET r == loadCredentials(credCache, credFile, lcFiles[credFile])
          IN /\ credCache' = r.cache
             /\ lcLog' = Append(lcLog, [file |-> credFile, creds |-> r.creds, err |-> r.err])
    /\ UNCHANGED <<lcPc, lcFiles>>
    /\ LoadFrame

(* --------------------------- specifications --------------------------- *)

\* nothing has been called yet
Init == InitScan /\ InitHosts /\ InitCred /\ InitFingerprint
           /\ InitDetect /\ InitRTSP /\ InitPipeline /\ InitMJPEG
           /\ InitUniq /\ InitMasscanParse /\ InitVerifyMap
           /\ InitHTTPMeta /\ InitLogin /\ InitCIDR /\ InitFilter
           /\ InitLoad

NextScan ==
    \/ ScanCall
    \/ NaabuDiscovery
    \/ MasscanDiscovery
    \/ ScanVerify
    \/ ScanDone

SpecScan == Init /\ [][NextScan]_vars

NextHosts ==
    \/ ProcessHostsCall
    \/ \E h \in DOMAIN taskPc : TaskAcquire(h)
    \/ \E h \in DOMAIN taskPc : TaskProcess(h)
    \/ \E h \in DOMAIN taskPc : TaskPanic(h)
    \/ \E h \in DOMAIN taskPc : TaskLock(h)
    \/ \E h \in DOMAIN taskPc : TaskAppend(h)
    \/ ProcessHostsReturn

SpecHosts == Init /\ [][NextHosts]_vars

NextCred ==
    \/ BruteCall
    \/ BruteSelect
    \/ \E u \in DOMAIN urlPc : URLProbe(u)
    \/ \E t \in DOMAIN credPc : CredStart(t[1], t[2])
    \/ \E t \in DOMAIN credPc : CredFinish(t[1], t[2])
    \/ \E u \in DOMAIN urlPc : CredClose(u)
    \/ \E u \in DOMAIN urlPc : URLRecv(u)
    \/ ResultClose
    \/ BasicCall
    \/ BasicProbe
    \/ BasicTrial

SpecCred == Init /\ [][NextCred]_vars

NextFingerprint ==
    \/ FingerprintCall
    \/ FingerprintDone

SpecFingerprint == Init /\ [][NextFingerprint]_vars

NextDetect ==
    \/ \E t \in Callers : DetectLookup(t)
    \/ \E t \in Callers : DetectStore(t)
    \/ \E t \in Callers : CVELookup(t)
    \/ \E t \in Callers : CVEStore(t)

SpecDetect == Init /\ [][NextDetect]_vars

NextRTSP ==
    \/ RTSPCall
    \/ RTSPDone

SpecRTSP == Init /\ [][NextRTSP]_vars

NextPipeline ==
    \/ CtxDone
    \/ PipelineStart
    \/ ProbeMeta
    \/ ProbeLogin
    \/ ProbeRtsp
    \/ ProbeOnvif
    \/ ProbeMjpeg
    \/ PipelineDetect
    \/ PipelineCVEs
    \/ PipelineCreds
    \/ PipelineReturn
    \/ SnapshotEnds

SpecPipeline == Init /\ [][NextPipeline]_vars

NextMJPEG ==
    \/ MJPEGCall
    \/ \E p \in DOMAIN mjPortPc : MJPEGAcquire(p)
    \/ \E p \in DOMAIN mjPortPc : MJPEGSpawn(p)
    \/ \E p \in DOMAIN mjPortPc : MJPEGAnswer(p)
    \/ \E p \in DOMAIN mjPortPc : MJPEGPortDone(p)
    \/ MJPEGReturn
    \/ MJPEGDone

SpecMJPEG == Init /\ [][NextMJPEG]_vars

NextUniq ==
    \/ UniqCall
    \/ UniqDone

SpecUniq == Init /\ [][NextUniq]_vars

NextMasscanParse ==
    \/ MasscanParseCall
    \/ MasscanParseDone

SpecMasscanParse == Init /\ [][NextMasscanParse]_vars

NextVerifyMap ==
    \/ VerifyMapCall
    \/ VerifyMapDone

SpecVerifyMap == Init /\ [][NextVerifyMap]_vars

\* the discovery and verification operations, one at a time, each called
\* while the others are in their state after construction; of Scan, the
\* first call of the process
NextPortMaps ==
    \/ (InitMasscanParse /\ InitVerifyMap
            /\ (ScanCall \/ NaabuDiscovery \/ MasscanDiscovery \/ ScanVerify))
    \/ (InitScan /\ InitVerifyMap /\ NextMasscanParse)
    \/ (InitScan /\ InitMasscanParse /\ NextVerifyMap)

SpecPortMaps == Init /\ [][NextPortMaps]_vars

NextHTTPMeta ==
    \/ HTTPMetaCall
    \/ HTTPMetaGet
    \/ HTTPMetaReturn
    \/ HTTPMetaDone

SpecHTTPMeta == Init /\ [][NextHTTPMeta]_vars

NextLogin ==
    \/ FindLoginPagesCall
    \/ OptimizedLoginCall
    \/ LoginDone

SpecLogin == Init /\ [][NextLogin]_vars

NextCIDR ==
    \/ CIDRCall
    \/ CIDRAppend
    \/ CIDRReturn
    \/ CIDRDone

SpecCIDR == Init /\ [][NextCIDR]_vars

\* the loop of FromArgsOrFile keeps running while it can
FairSpecCIDR ==
    Init /\ [][NextCIDR]_vars /\ WF_vars(CIDRAppend) /\ WF_vars(CIDRReturn)

NextFilter ==
    \/ FilterPortsCall
    \/ FilterPortsDone

SpecFilter == Init /\ [][NextFilter]_vars

NextLoad ==
    \/ CredFilesGiven
    \/ LoadCall

SpecLoad == Init /\ [][NextLoad]_vars

(* ------------------------- properties of Scan ------------------------- *)

\* the verification step of the current call has run and Scan has returned
ScanVerified == scanPc = "returned" /\ DOMAIN discoveredPorts # {}

\* C1: whatever discovery reported, every host Scan returns after the
\* verification step is a host discovery reported, and the ports returned
\* for it are among the ports discovery reported for that host.
C1_VerifiedWithinDiscovery ==
    (ScanVerified /\ ~verifyFailed) =>
        \A h \in DOMAIN scanResult :
            /\ h \in DOMAIN discoveredPorts
            /\ Range(scanResult[h]) \subseteq Range(discoveredPorts[h])

\* C3: when VerifyPorts returns an error, Scan returns the discovery map
\* unchanged and a nil error.
C3_VerifyFailureFallsBack ==
    (scanPc = "returned" /\ verifyFailed) =>
        (scanResult = discoveredPorts /\ ~scanErr)

C3_Witness ==
    /\ scanPc = "returned"
    /\ verifyFailed
    /\ Cardinality(DOMAIN discoveredPorts) = 2
    /\ scanResult = discoveredPorts

\* a target is local when it is "localhost" or starts with "127."
IsLocalTarget(t) ==
    \/ t = <<"l","o","c","a","l","h","o","s","t">>
    \/ (Len(t) >= 4 /\ t[1] = "1" /\ t[2] = "2" /\ t[3] = "7" /\ t[4] = ".")

BatchHasLocal == \E i \in 1..Len(targets) : IsLocalTarget(targets[i])

\* C4: once discovery of a call has run, exactly one engine was used for it:
\* the connect-scan engine if some target of the batch is local, the SYN-scan
\* engine otherwise, whatever the local-target cache held at the call.
C4_WholeBatchEngineSelection ==
    (discoveryEngines # {} \/ scanPc = "verify") =>
        discoveryEngines = IF BatchHasLocal THEN {"naabu"} ELSE {"masscan"}

C4_Witness ==
    /\ scanPc = "verify"
    /\ discoveryEngines = {"naabu"}
    /\ \E i \in 1..Len(targets) : ~IsLocalTarget(targets[i])
    /\ \E t \in DOMAIN localhostCache : t \notin Range(targets)

\* C17: the verification scan started by Scan runs at half the configured
\* discovery rate, Rate / 2 in integer division.
C17_VerifyAtHalfRate ==
    verifyRun.engine # "none" => verifyRun.rate = cfg.Rate \div 2

C19_StartFailureFailsRun ==
    discoveryRun.outcome = "start-failed" =>
        /\ scanPc = "returned"
        /\ scanErr
        /\ scanResult = EmptyMap
        /\ discoveryEngines = {"masscan"}
        /\ engineRuns = 1
        /\ verifyRun = NoRun

C19_Witness ==
    /\ discoveryRun.outcome = "start-failed"
    /\ scanPc = "returned"
    /\ Len(targets) = 2

(* ---------------------- properties of fingerprint --------------------- *)

\* a keyword of the i-th vendor occurs in the lower-cased banner or body
\* (for CP Plus, the last vendor, in the body)
KeywordEvidence(i, lh, lb) ==
    \E k \in 1..Len(getBrandKeys(brands[i])) :
        \/ Contains(lb, getBrandKeys(brands[i])[k])
        \/ (i < Len(brands) /\ Contains(lh, getBrandKeys(brands[i])[k]))

\* the i-th vendor is named by the lower-cased RTSP banner
RtspEvidence(i, lr) == i < Len(brands) /\ Contains(lr, ToLower(brands[i]))

\* the RTSP normalization rules yield no vendor for the banner
NormalizationYieldsNothing(rtspServer) ==
    \/ rtspServer = <<>>
    \/ normalizeRtspBrandFromServer(rtspServer) \in {<<"R","T","S","P">>, <<>>}

\* a generic camera keyword occurs in one of the lower-cased signals
GenericEvidence(lh, lb, lr) ==
    \E k \in 1..Len(brandKeysGeneric) :
        \/ Contains(lh, brandKeysGeneric[k])
        \/ Contains(lb, brandKeysGeneric[k])
        \/ Contains(lr, brandKeysGeneric[k])

\* the vendor R was found first-match-wins on the signals in
FirstMatchWins(R, in) ==
    LET lh == ToLower(in.serverHdr)
        lb == ToLower(in.body)
        lr == ToLower(in.rtspServer)
        named == {brands[i] : i \in 1..Len(brands)}
        noVendor == \A j \in 1..Len(brands) : ~KeywordEvidence(j, lh, lb)
    IN /\ \A k \in 1..Len(brands) :
             R = brands[k] =>
                 \A j \in 1..(k - 1) : ~KeywordEvidence(j, lh, lb) /\ ~RtspEvidence(j, lr)
       /\ (Contains(lh, <<"d","v","r">>) \/ Contains(lb, <<"d","v","r">>)) => R = Hikvision
       /\ R \notin named => noVendor /\ \A j \in 1..Len(brands) : ~RtspEvidence(j, lr)
       /\ (R = UnknownCam /\ TrimSpace(in.rtspServer) # UnknownCam) =>
             GenericEvidence(lh, lb, lr) /\ NormalizationYieldsNothing(in.rtspServer)
       /\ R = <<>> =>
             ~GenericEvidence(lh, lb, lr) /\ NormalizationYieldsNothing(in.rtspServer)

\* C13: detectBrand and DetectWithVersion return a named vendor only if no
\* vendor earlier in the order Hikvision, Dahua, Axis, Sony, Bosch, Samsung,
\* Panasonic, Vivotek, CP Plus has a keyword in the signals ("dvr" in banner
\* or body yields Hikvision), a vendor of the RTSP normalization rules only
\* if no named vendor matches, "Unknown cam" only if those rules yield
\* nothing and a generic keyword matches, and the empty vendor otherwise.
C13_FirstMatchWins ==
    fpPc = "returned" =>
        /\ FirstMatchWins(fpOut.brand, fpIn)
        /\ FirstMatchWins(fpDetect.Brand, fpIn)

C13_Witness ==
    /\ fpPc = "returned"
    /\ fpIn.serverHdr = S_dahua
    /\ fpIn.body = S_dvr
    /\ fpOut.brand = Hikvision
    /\ fpDetect.Brand = Hikvision

\* C11: two OptimizedDetect calls with identical signals return the identical
\* vendor and note, also when other calls run meanwhile, and a repeated call
\* changes the list OptimizedCVEsForBrand returns for no vendor.
C11_DetectPureAndMemoized ==
    /\ \A e1 \in detectLog, e2 \in detectLog :
          e1.in = e2.in => (e1.brand = e2.brand /\ e1.note = e2.note)
    /\ ~repeatChangedCVEs

\* C35: the cache is transparent: every OptimizedDetect call that has
\* returned, after any calls of OptimizedDetect and OptimizedCVEsForBrand,
\* returned the vendor and the note detectBrand gives for its signals.
C35_CacheTransparent ==
    \A e \in detectLog :
        LET found == detectBrand(e.in.serverHdr, e.in.body, e.in.rtspServer)
        IN e.brand = found.brand /\ e.note = found.note

(* ----------------------- properties of ProbeRTSP ---------------------- *)

\* the port answered the probe with a 200 status line
Answers200(resp) == resp.dial = "ok" /\ HasPrefix(resp.status, <<"R","T","S","P","/","1",".","0"," ","2","0","0">>)

\* the header lines of the response name a server
NamesServer(resp) ==
    \E i \in 1..Len(resp.headers) : HasPrefix(ToLower(resp.headers[i]), <<"s","e","r","v","e","r",":">>)

\* C15: ProbeRTSP reports presence only on a 200 status line: a result with
\* Any=false has an empty Server and an empty Public, the ports that did not
\* answer 200 contribute nothing to the result, and when no port answers 200
\* the result is Any=false, Server="", Public=""
C15_RtspOnlyOn200 ==
    rtspPc = "returned" =>
        /\ ~rtspOut.Any => (rtspOut.Server = <<>> /\ rtspOut.Public = <<>>)
        /\ rtspOut = ProbeRTSP(SelectSeq(rtspIn, Answers200))
        /\ (\A i \in 1..Len(rtspIn) : ~Answers200(rtspIn[i])) => rtspOut = NoRTSPInfo

\* ProbeRTSP returned for ports none of which answered 200, one of them with
\* a Server header after another status line
C15_Witness ==
    /\ rtspPc = "returned"
    /\ rtspIn # <<>>
    /\ \A i \in 1..Len(rtspIn) : ~Answers200(rtspIn[i])
    /\ \E i \in 1..Len(rtspIn) :
          /\ rtspIn[i].dial = "ok"
          /\ rtspIn[i].status = RTSP_401
          /\ NamesServer(rtspIn[i])

(* ------------- properties of the discovery and verification maps ------ *)

\* no key of the map has an empty port list
NoEmptyPortList(m) == \A h \in DOMAIN m : Len(m[h]) > 0

\* C27: every map returned by parseMasscanOutput, by the discovery engines
\* inside Scan, by HybridScanner.Scan and by TCPVerifier.VerifyMap has only
\* hosts with at least one port; a host none of whose ports answers is absent
\* from the verified map, and a discovery that finds nothing returns an
\* empty map without an error.
C27_OnlyHostsWithPorts ==
    /\ NoEmptyPortList(mpOut)
    /\ NoEmptyPortList(discoveredPorts)
    /\ NoEmptyPortList(scanResult)
    /\ NoEmptyPortList(vmOut)
    /\ vmPc = "returned" =>
          \A h \in DOMAIN vmIn :
              (\A i \in 1..Len(vmIn[h]) : ~try(vmRetries, vmDials[<<h, vmIn[h][i]>>]))
                  => h \notin DOMAIN vmOut
    /\ (scanPc = "returned" /\ discoveryRun.outcome = "ok"
            /\ DOMAIN discoveredPorts = {})
          => (~scanErr /\ scanResult = EmptyMap)

\* VerifyMap was given a host with ports none of which answered, and one
\* with a port that did
C27_Witness ==
    /\ vmPc = "returned"
    /\ \E h \in DOMAIN vmIn : vmIn[h] # <<>> /\ h \notin DOMAIN vmOut
    /\ DOMAIN vmOut # {}

\* no port occurs twice in the list of a host
NoDuplicatePorts(m) ==
    \A h \in DOMAIN m :
        \A i, j \in 1..Len(m[h]) : i # j => m[h][i] # m[h][j]

\* C28: for every sequence of masscan output lines, each port appears at
\* most once in the port list of a host in the map parseMasscanOutput
\* returns.
C28_PortsAreASet == NoDuplicatePorts(mpOut)

\* every character of the string is a decimal digit
AllDigits(s) == s # <<>> /\ \A i \in 1..Len(s) : s[i] \in DigitChars

\* the offset of the first blank of s at or after offset from, Len(s) if none
BlankFrom(s, from) ==
    LET blanks == {i \in from..(Len(s) - 1) : s[i + 1] = " "}
    IN IF blanks = {} THEN Len(s)
       ELSE CHOOSE i \in blanks : \A j \in blanks : i <= j

\* the (host, port) a line of the form "Discovered open port P/tcp on H"
\* names, P a positive integer and H non-empty
NewFormPairs(line) ==
    LET head == <<"D","i","s","c","o","v","e","r","e","d"," ","o","p","e","n"," ","p","o","r","t"," ">>
        mid == <<"/","t","c","p"," ","o","n"," ">>
    IN {<<Slice(line, k + Len(mid), Len(line)),
          digitsValue(Slice(line, Len(head), k), 0)>> :
           k \in {k \in Len(head)..Len(line) :
                    /\ HasPrefix(line, head)
                    /\ AllDigits(Slice(line, Len(head), k))
                    /\ digitsValue(Slice(line, Len(head), k), 0) > 0
                    /\ Slice(line, k, k + Len(mid)) = mid
                    /\ k + Len(mid) < Len(line)}}

\* the (host, port) a line of the form "open tcp P H ..." names
OldFormPairs(line) ==
    LET head == <<"o","p","e","n"," ","t","c","p"," ">>
        pEnd == BlankFrom(line, Len(head))
        hEnd == BlankFrom(line, pEnd + 1)
    IN IF /\ HasPrefix(line, head)
          /\ AllDigits(Slice(line, Len(head), pEnd))
          /\ digitsValue(Slice(line, Len(head), pEnd), 0) > 0
          /\ pEnd + 1 < hEnd
       THEN {<<Slice(line, pEnd + 1, hEnd),
               digitsValue(Slice(line, Len(head), pEnd), 0)>>}
       ELSE {}

\* the (host, port) pairs the result lines among the given lines name
ResultPairs(lines) ==
    UNION {NewFormPairs(lines[i]) \cup OldFormPairs(lines[i]) : i \in 1..Len(lines)}

\* the (host, port) pairs of a map
MapPairs(m) == UNION {{<<h, m[h][i]>> : i \in 1..Len(m[h])} : h \in DOMAIN m}

\* C29: for every sequence of lines, the map parseMasscanOutput returns
\* holds (host, port) exactly for the lines of the form "Discovered open
\* port P/tcp on H" and "open tcp P H ..." with P a positive integer and H
\* non-empty; every other line adds nothing.
C29_ParsesBothFormatsSkipsNoise ==
    mpPc = "returned" => MapPairs(mpOut) = ResultPairs(mpLines)

\* a noise line and a result line were read, and the result line counted
C29_Witness ==
    /\ mpPc = "returned"
    /\ \E i, j \in 1..Len(mpLines) :
          /\ mpLines[i] # <<>>
          /\ ResultPairs(<<mpLines[i]>>) = {}
          /\ ResultPairs(<<mpLines[j]>>) # {}
    /\ DOMAIN mpOut # {}

(* --------------------- properties of ProbeHTTPMeta -------------------- *)

\* C31: ProbeHTTPMeta issues its GETs to the ports in the order given; no
\* GET is issued once both a server banner and a body snippet are captured;
\* a captured banner or snippet is never replaced during the call; the body
\* snippet is at most 512 bytes.
C31_MetaInOrderStopsAndBounded ==
    /\ [](/\ hmGets = SubSeq(hmPorts, 1, Len(hmGets))
          /\ Len(hmMeta.BodySnippet) <= 512)
    /\ [][/\ metaComplete(hmMeta) => hmGets' = hmGets \/ hmPc' = "idle"
          /\ (hmMeta.Server # <<>> /\ hmPc' # "idle")
                => hmMeta'.Server = hmMeta.Server
          /\ (hmMeta.BodySnippet # <<>> /\ hmPc' # "idle")
                => hmMeta'.BodySnippet = hmMeta.BodySnippet]_vars

(* ------------------- properties of the login-page probes -------------- *)

\* the paths the finder of the current call requests
PathsRequested == IF lfFinder = "optimized" THEN CameraPaths ELSE LoginPaths

\* the response is one the claim says is recorded
IsLoginCandidate(resp) ==
    /\ ~resp.err
    /\ \/ resp.StatusCode \in {200, 401, 403}
       \/ resp.WWWAuthenticate

\* C32: the list a login-page probe returns holds a URL if and only if the
\* HEAD request to it was answered with status 200, 401 or 403 or with a
\* WWW-Authenticate header, and holds no URL twice; a failed request records
\* nothing.
C32_LoginPagesExactAndUnique ==
    lfPc = "returned" =>
        /\ \A i \in 1..Len(lfPorts), j \in 1..Len(PathsRequested) :
              (\E k \in 1..Len(lfOut) : lfOut[k] = <<lfPorts[i], PathsRequested[j]>>)
                  <=> IsLoginCandidate(lfProfile[j])
        /\ \A k \in 1..Len(lfOut) :
              \E i \in 1..Len(lfPorts), j \in 1..Len(PathsRequested) :
                  lfOut[k] = <<lfPorts[i], PathsRequested[j]>>
        /\ \A k, l \in 1..Len(lfOut) : k # l => lfOut[k] # lfOut[l]

\* a response that is both 200 and a challenge was recorded, next to a
\* request that failed, on a port that was probed twice
C32_Witness ==
    /\ lfPc = "returned"
    /\ \E j \in 1..Len(PathsRequested) : lfProfile[j] = Head200Auth
    /\ \E j \in 1..Len(PathsRequested) : lfProfile[j] = HeadErr
    /\ \E i, k \in 1..Len(lfPorts) : i # k /\ lfPorts[i] = lfPorts[k]
    /\ lfOut # <<>>

(* ----------------------- properties of TCPVerifier -------------------- *)

\* the list is in ascending order
Ascending(s) == \A i, j \in 1..Len(s) : i < j => s[i] <= s[j]

\* C33: for each port of the input, try dials at most retries+1 times; the
\* port is reported open exactly when one of those dials succeeds, and then
\* no dial follows the first success; it is reported closed only after
\* retries+1 failed dials; Verify returns exactly the ports reported open,
\* in ascending order.
C33_RetryPolicy ==
    vmPc = "returned" =>
        \A h \in DOMAIN vmIn :
            /\ Ascending(vmVerified[h])
            /\ Range(vmVerified[h]) \subseteq Range(vmIn[h])
            /\ \A p \in Range(vmIn[h]) :
                  LET first == vmDials[<<h, p>>]
                      made == vmAttempts[<<h, p>>]
                      open == p \in Range(vmVerified[h])
                  IN /\ made <= vmRetries + 1
                     /\ open <=> first \in 1..(vmRetries + 1)
                     /\ open => made = first
                     /\ ~open => made = vmRetries + 1

\* one port was reported open on a retry, another closed after all dials
\* failed, and Verify had to put two open ports in order
C33_Witness ==
    /\ vmPc = "returned"
    /\ vmRetries >= 1
    /\ \E a \in DOMAIN vmAttempts : vmDials[a] = 2 /\ vmAttempts[a] = 2
    /\ \E a \in DOMAIN vmAttempts : vmDials[a] = 0 /\ vmAttempts[a] = vmRetries + 1
    /\ \E h \in DOMAIN vmIn : vmIn[h] = <<554, 80>> /\ vmVerified[h] = <<80, 554>>

(* --------------------- properties of FromArgsOrFile ------------------- *)

\* the addresses of the network of the current call
NetworkAddrs == {a \in Addrs : ipnetContains(cdNet, a)}

\* C34: for every valid CIDR target the expansion terminates, and what it
\* returns is exactly the addresses of the network, each once:
\* 2^(bits - p) addresses for a prefix of length p, also when the network
\* ends at the highest address or is the whole address space.
C34_CIDRExpansionTerminatesExact ==
    /\ [](cdPc = "returned" =>
            /\ Range(cdResult) = NetworkAddrs
            /\ Len(cdResult) = Pow2(PrefixBits - cdNet.prefix))
    /\ (cdPc = "loop" ~> cdPc = "returned")

(* -------------------------- properties of Uniq ------------------------ *)

\* the positions of x that hold the first occurrence of their element
FirstOccurrences(x) == {i \in 1..Len(x) : \A j \in 1..(i - 1) : x[j] # x[i]}

\* the k-th smallest member of a set of positions
KthOf(I, k) == CHOOSE i \in I : Cardinality({j \in I : j <= i}) = k

\* C26: Uniq(x) has no duplicates and holds exactly the distinct elements of
\* x in the order of their first occurrence, and Uniq(Uniq(x)) = Uniq(x)
C26_UniqIdempotentOrdered ==
    uqPc = "returned" =>
        /\ \A i, j \in 1..Len(uqOut) : uqOut[i] = uqOut[j] => i = j
        /\ Len(uqOut) = Cardinality(FirstOccurrences(uqIn))
        /\ \A k \in 1..Len(uqOut) : uqOut[k] = uqIn[KthOf(FirstOccurrences(uqIn), k)]
        /\ uqTwice = uqOut

\* Uniq returned for a list in which an element comes back after another one
C26_Witness ==
    /\ uqPc = "returned"
    /\ Len(uqIn) >= 3
    /\ uqIn[1] = uqIn[3]
    /\ uqIn[1] # uqIn[2]
    /\ Len(uqOut) < Len(uqIn)

(* --------------------- properties of FindMJPEGPaths ------------------- *)

\* the port goroutines that hold a slot of the semaphore
PortsProbed == {p \in DOMAIN mjPortPc : mjPortPc[p] \in {"spawn", "wait"}}

\* C21: in FindMJPEGPaths at most 5 ports are probed at once and the HEAD
\* requests in flight for one port are bounded by a limit of their own, so
\* the requests of a port are never all in flight at once
C21_PathRequestsBounded ==
    /\ Cardinality(PortsProbed) <= 5
    /\ \A p \in DOMAIN mjPortPc : mjInFlight[p] < MJPEGPathCount

(* ---------------------- properties of processHost --------------------- *)

\* processHost is past the vendor detection and the correlation
Correlated == pPc \in {"correlated", "tested", "returned"}

\* C12: in processHost the banner of the RTSP probe is an input of the
\* vendor detection: a host whose only vendor evidence is an RTSP Server
\* banner containing "dahua" is reported as Dahua
C12_RtspBannerFeedsDetection ==
    (/\ Correlated
     /\ Contains(ToLower(pResult.RTSPInfo.Server), <<"d","a","h","u","a">>)
     /\ pResult.HTTPMeta = NoHTTPMeta)
        => pResult.Brand = Dahua

\* C14: a host whose HTTP server banner contains "hikvision" in any letter
\* case is given the vendor Hikvision and a non-empty vulnerability list, by
\* Detect and CVEsForBrand and by processHost
C14_HikvisionBanner ==
    (Correlated /\ Contains(ToLower(pResult.HTTPMeta.Server), <<"h","i","k","v","i","s","i","o","n">>))
        => /\ pResult.Brand = Hikvision
           /\ pResult.CVEs # <<>>
           /\ Detect(pResult.HTTPMeta.Server, pResult.HTTPMeta.BodySnippet, <<>>) = Hikvision
           /\ CVEsForBrand(Hikvision) # <<>>

\* processHost has correlated a host that answered with "HiKVISION-Webs"
C14_Witness ==
    /\ pPc = "returned"
    /\ pResult.HTTPMeta.Server = S_hik
    /\ pResult.Brand = Hikvision

\* every candidate path of the host answers 404 without a challenge
AllPaths404 == \A i \in 1..Len(LoginPaths) : pEnv.login[i] = Head404

\* C16: OptimizedBruteForce is never called with an empty list of login
\* pages, and a host whose candidate paths all answer 404 without a
\* WWW-Authenticate header has no login page and no call of the tester
C16_NoLoginPagesNoTester ==
    /\ \A i \in 1..Len(pBruteCalls) : pBruteCalls[i] # <<>>
    /\ (pPc # "idle" /\ pResult.LoginPages = <<>>) => pBruteCalls = <<>>
    /\ (pPc # "idle" /\ AllPaths404) => (pResult.LoginPages = <<>> /\ pBruteCalls = <<>>)

\* processHost returned for a host with an HTTP port that answered every
\* candidate path with 404, with a credential file in place
C16_Witness ==
    /\ pPc = "returned"
    /\ pResult.HTTPPorts # <<>>
    /\ AllPaths404
    /\ pEnv.credsFile = "readable"
    /\ pResult.LoginPages = <<>>
    /\ pBruteCalls = <<>>

\* C20: with a missing or unreadable credential file no assessment of a
\* host with login pages is completed, neither with the credential test
\* skipped nor with "no credential found" as its outcome
C20_CredFileErrorIsFatal ==
    ~(/\ pPc = "returned"
      /\ pEnv.credsFile \in {"missing", "unreadable"}
      /\ pResult.LoginPages # <<>>
      /\ CredentialLine(pResult) = "No default credentials found")

\* the ONVIF probe of the host has run
OnvifProbed == pPc # "idle" /\ "onvif" \notin pPending

\* a response datagram reached ProbeONVIF before its deadline
DatagramReceived(b) ==
    b.dial = "ok" /\ b.write = "ok" /\ b.read = "ok" /\ b.n > 0

\* C23: a probe that times out yields an empty result: ONVIFResult is
\* non-empty only if a response datagram was received, and is empty when
\* none arrived before the deadline
C23_OnvifEmptyWithoutResponse ==
    (OnvifProbed /\ ~DatagramReceived(pEnv.onvif)) => pResult.ONVIFResult = ""

\* C24: the snapshot goroutine is started only for a host with an HTTP port,
\* and once processHost has returned nothing the goroutine does changes the
\* HostResult of the host
C24_SnapshotFireAndForget ==
    /\ [](pSnapshot # "none" => pResult.HTTPPorts # <<>>)
    /\ [][(pPc = "returned" /\ pPc' = "returned") => pResult' = pResult]_vars

\* processHost has returned for a host with an HTTP port while its snapshot
\* goroutine is still running
C24_Witness ==
    /\ pPc = "returned"
    /\ pResult.HTTPPorts # <<>>
    /\ pSnapshot = "running"

\* the result of a probe holds nothing a network operation delivered
ProbeFailed(g) ==
    CASE g = "meta" -> pResult.HTTPMeta = NoHTTPMeta
      [] g = "login" -> pResult.LoginPages = <<>>
      [] g = "rtsp" -> pResult.RTSPInfo = NoRTSPInfo
      [] g = "onvif" -> ~DatagramReceived(pEnv.onvif)
      [] g = "mjpeg" -> pResult.MJPEGPaths = <<>>
      [] g = "creds" -> pResult.Credentials = NoCredential

\* C25: once the context of the run is done, no probe and no credential
\* trial completes a network operation: each one run after that returns an
\* empty result
C25_DeadlineReachesEveryProbe ==
    \A g \in pStartedLate : ProbeFailed(g)

\* the fields of the probe result
ProbeFields == DOMAIN pWrites

\* C30: each field of the probe result is assigned by at most one probe
\* goroutine and at most once, and processHost goes on past OptimizedProbe
\* only when no probe goroutine is running
C30_DisjointWritesBehindBarrier ==
    /\ \A f \in ProbeFields : Len(pWrites[f]) <= 1
    /\ \A f \in ProbeFields : \A i \in 1..Len(pWrites[f]) : probeField(pWrites[f][i]) = f
    /\ pPc \in {"detected", "correlated", "tested", "returned"} => pPending = {}

\* OptimizedProbe has returned for a host with both kinds of ports and each
\* of the five fields was assigned once
C30_Witness ==
    /\ pPc = "detected"
    /\ pPending = {}
    /\ \A f \in ProbeFields : Len(pWrites[f]) = 1

(* --------------------- properties of ProcessHosts --------------------- *)

\* the host tasks that are executing processHost
InProcessHost == {h \in DOMAIN taskPc : taskPc[h] = "process"}

\* C5: at every moment at most 5 host tasks are executing processHost.
C5_AtMostFiveHostTasks == Cardinality(InProcessHost) <= 5

C5_Witness ==
    /\ Cardinality(InProcessHost) = 5
    /\ \E h \in DOMAIN taskPc : taskPc[h] = "acquire"

\* the records of the list that belong to host h
RecordsOf(list, h) == {i \in 1..Len(list) : list[i].Host = h}

\* C6: when ProcessHosts has returned, every host task has finished and the
\* returned list holds exactly one record for each host of the input map and
\* no other record, each record carrying the port list of its host.
C6_OneRecordPerHost ==
    phPc = "returned" =>
        /\ \A h \in DOMAIN results : taskPc[h] = "done"
        /\ Len(phReturned) = Cardinality(DOMAIN results)
        /\ \A h \in DOMAIN results :
              /\ Cardinality(RecordsOf(phReturned, h)) = 1
              /\ \A i \in RecordsOf(phReturned, h) : phReturned[i].Ports = results[h]

C6_Witness ==
    /\ phPc = "returned"
    /\ Cardinality(DOMAIN results) > HostLimit
    /\ phReturned[1].Host # 1

\* the host tasks that raised a panic
Panicked == {h \in DOMAIN taskPc : taskPc[h] = "panicked"}

\* C7: a panic in one host task does not affect the others: after it,
\* ProcessHosts has returned or it and the other tasks can still take a step,
\* and a returned list holds the records of all other hosts.
C7_PanicIsolated ==
    Panicked # {} =>
        /\ phPc = "returned" \/ ENABLED NextHosts
        /\ phPc = "returned" =>
              \A h \in (DOMAIN results) \ Panicked :
                  RecordsOf(phReturned, h) # {}

(* ----------------- properties of the credential tester ---------------- *)

\* the goroutines OptimizedBruteForce started that have not finished
RunningURLTasks == {u \in DOMAIN urlPc : urlPc[u] # "done"}
RunningCredTasks == {t \in DOMAIN credPc : credPc[t] \in {"wait", "test"}}

\* every request of the call has been answered and every goroutine has ended
AllRequestsComplete ==
    /\ RunningURLTasks = {}
    /\ RunningCredTasks = {}
    /\ \A u \in DOMAIN credCloser : credCloser[u] # "wait"
    /\ resultCloser # "wait"

\* C2: OptimizedBruteForce returns a non-empty credential whenever a trial
\* succeeded on a URL that signalled a challenge, and the empty string only
\* when no trial succeeded, once all requests have completed.
C2_ReturnsFirstSuccess ==
    (credFn = "optimized" /\ bfPc = "returned" /\ AllRequestsComplete) =>
        (bfResult = <<>> <=> succeeded = {})

\* C8: no request with an Authorization header is sent to a URL whose
\* unauthenticated request failed or was answered without a challenge, by
\* OptimizedBruteForce and by TryDefaultBasic.
C8_NoTrialWithoutChallenge ==
    \A t \in trials : probeResp[t[1]] = "challenge"

C8_Witness ==
    /\ credFn = "optimized"
    /\ \E u \in DOMAIN probeResp :
          probeResp[u] = "plain" /\ urlPc[u] = "done"
    /\ \E t \in trials : probeResp[t[1]] = "challenge"

\* the credential trials of URL u whose request is in flight
TrialsInFlight(u) == {t \in DOMAIN credPc : t[1] = u /\ credPc[t] = "test"}

\* C22: in OptimizedBruteForce at most 5 credential trials of one login URL
\* are in flight at any moment, however long the credential list is.
C22_AtMostFiveTrialsPerURL ==
    credFn = "optimized" =>
        \A u \in DOMAIN urlPc : Cardinality(TrialsInFlight(u)) <= 5

\* five trials of a URL are in flight while a sixth credential goroutine of
\* that URL waits for a slot
C22_Witness ==
    /\ credFn = "optimized"
    /\ \E u \in DOMAIN urlPc :
          /\ Cardinality(TrialsInFlight(u)) = 5
          /\ \E t \in DOMAIN credPc : t[1] = u /\ credPc[t] = "wait"

\* the trials that were answered 200 on a URL that had signalled a challenge
ChallengedSuccesses == {t \in succeeded : probeResp[t[1]] = "challenge"}

\* C36: a non-empty string returned by OptimizedBruteForce is an entry of the
\* loaded credential list whose trial was answered 200 on one of the login
\* URLs that had signalled a challenge; with several successes it is one of
\* the successful credentials.
C36_ResultIsSuccessfulCredential ==
    (credFn = "optimized" /\ bfPc = "returned" /\ bfResult # <<>>) =>
        \E t \in ChallengedSuccesses :
            /\ t[1] \in 1..loginURLs
            /\ t[2] \in 1..Len(creds)
            /\ bfResult = creds[t[2]]

\* a credential is returned while trials of two different credentials have
\* succeeded
C36_Witness ==
    /\ credFn = "optimized"
    /\ bfPc = "returned"
    /\ bfResult # <<>>
    /\ \E t1 \in ChallengedSuccesses, t2 \in ChallengedSuccesses :
          creds[t1[2]] # creds[t2[2]] /\ bfResult = creds[t2[2]]

\* the credential goroutines of URL u that can still send on its credChan
CredSenders(u) == {t \in DOMAIN credPc : t[1] = u /\ credPc[t] \in {"wait", "test"}}

\* the URL goroutines that can still send on resultChan
ResultSenders == {u \in DOMAIN urlPc : urlPc[u] \in {"probe", "recv"}}

\* C37: in every interleaving of OptimizedBruteForce a channel is closed only
\* when all of its senders are done, so no send follows a close; a closed
\* channel is not closed again (its closer goroutine has ended and stays
\* ended); and the sends are non-blocking: a credential goroutine whose
\* request is in flight and a URL goroutine whose credChan has a value or is
\* closed can always take their step, whatever the channels hold.
C37_ChannelSafety ==
    /\ [](credFn = "optimized" =>
            /\ \A u \in DOMAIN credChan :
                  /\ credChan[u].closed => (CredSenders(u) = {} /\ credCloser[u] = "done")
                  /\ credCloser[u] = "done" => credChan[u].closed
                  /\ Len(credChan[u].buf) <= 1
            /\ resultChan.closed => (ResultSenders = {} /\ resultCloser = "done")
            /\ resultCloser = "done" => resultChan.closed
            /\ Len(resultChan.buf) <= 1
            /\ \A t \in DOMAIN credPc :
                  credPc[t] = "test" => ENABLED CredFinish(t[1], t[2])
            /\ \A u \in DOMAIN urlPc :
                  (urlPc[u] = "recv" /\ CanRecv(credChan[u])) => ENABLED URLRecv(u))
    /\ [][credFn = "optimized" =>
            /\ \A u \in DOMAIN credChan :
                  /\ (u \in DOMAIN credChan' /\ credChan[u].closed) => credChan'[u].closed
                  /\ (credChan[u].closed /\ u \in DOMAIN credChan')
                          => Len(credChan'[u].buf) <= Len(credChan[u].buf)
                  /\ (u \in DOMAIN credCloser' /\ credCloser[u] = "done")
                          => credCloser'[u] = "done"
            /\ resultChan.closed =>
                  (resultChan'.closed /\ resultCloser' = "done"
                      /\ Len(resultChan'.buf) <= Len(resultChan.buf))]_vars

\* both channels of a call are closed after a credential was sent on each
C37_Witness ==
    /\ credFn = "optimized"
    /\ resultChan.closed
    /\ succeeded # {}
    /\ \E u \in DOMAIN credChan :
          credChan[u].closed /\ Cardinality({t \in succeeded : t[1] = u}) >= 2

\* C9: once a credential trial of OptimizedBruteForce has succeeded, no
\* further trial is started on any URL.
C9_StopsAtFirstSuccess ==
    [][(credFn = "optimized" /\ succeeded # {}) => trials' = trials]_vars

\* C10: when OptimizedBruteForce has returned, no URL goroutine and no
\* credential goroutine it started is still running.
C10_NoTaskOutlivesCall ==
    (credFn = "optimized" /\ bfPc = "returned") =>
        (RunningURLTasks = {} /\ RunningCredTasks = {})

(* --------------------- termination of ProcessHosts -------------------- *)

\* the Go scheduler runs every goroutine that can take a step, and every
\* network operation ends by its own timeout, so that processHost, with the
\* wait-barrier of OptimizedProbe inside it, returns unless it panics: a
\* host goroutine that can take a semaphore slot, leave processHost, lock mu
\* or append does so, and wg.Wait() returns when it can
FairSpecHosts ==
    /\ Init
    /\ [][NextHosts]_vars
    /\ WF_vars(\E h \in DOMAIN taskPc : TaskAcquire(h))
    /\ WF_vars(\E h \in DOMAIN taskPc : TaskProcess(h))
    /\ WF_vars(\E h \in DOMAIN taskPc : TaskLock(h))
    /\ WF_vars(\E h \in DOMAIN taskPc : TaskAppend(h))
    /\ WF_vars(ProcessHostsReturn)

\* the hosts of the largest input map
AllHosts == 1..MaxHosts

\* C38: for any number of hosts, more than the 5 of the host limit included,
\* every host task that waits for the semaphore gets a slot, finishes and
\* gives the slot back, and ProcessHosts returns with the semaphore and the
\* mutex free.
C38_ProcessHostsTerminates ==
    /\ (phPc = "wait" ~> phPc = "returned")
    /\ \A h \in AllHosts :
          (h \in DOMAIN taskPc /\ taskPc[h] = "acquire")
              ~> (h \in DOMAIN taskPc /\ taskPc[h] = "done")
    /\ [](phPc = "returned" => (semaphore = 0 /\ mu = 0 /\ wg = 0))

(* ------------------ properties of the port filtering ------------------ *)

\* sub is full with some elements left out, the rest in the same order
RECURSIVE IsSubsequence(_, _)
IsSubsequence(sub, full) ==
    IF sub = <<>> THEN TRUE
    ELSE IF full = <<>> THEN FALSE
    ELSE IF Head(sub) = Head(full) THEN IsSubsequence(Tail(sub), Tail(full))
    ELSE IsSubsequence(sub, Tail(full))

\* the RTSP, RTMP, ONVIF-discovery and DVR ports
NonWebPorts ==
    {554, 8554, 10554, 1554, 2554, 3554, 4554, 5554, 6554, 7554, 9554}
        \cup {1935, 1936, 1937, 1938, 1939} \cup {3702, 37777}

\* C39: in the record of a host HTTPPorts and RTSPPorts have no port in
\* common, each is Ports with some ports left out and the rest in the same
\* order, and every port of Ports that is not an RTSP, RTMP, ONVIF-discovery
\* or 37777 port is in HTTPPorts.
C39_FilteredPortsPartition ==
    pfPc = "filtered" =>
        /\ Range(pfHTTP) \cap Range(pfRTSP) = {}
        /\ IsSubsequence(pfHTTP, pfPorts)
        /\ IsSubsequence(pfRTSP, pfPorts)
        /\ \A i \in 1..Len(pfPorts) :
              pfPorts[i] \notin NonWebPorts => pfPorts[i] \in Range(pfHTTP)

\* a host with a web port, an RTSP port and a port that is in neither list
C39_Witness ==
    /\ pfPc = "filtered"
    /\ pfHTTP # <<>>
    /\ pfRTSP # <<>>
    /\ Len(pfHTTP) + Len(pfRTSP) < Len(pfPorts)

(* -------------------- properties of loadCredentials ------------------- *)

\* C40: when a loadCredentials call for a path has returned an error, no
\* later call for the same path, the file being unchanged, returns the list
\* the failed call had read, with a nil error.
C40_FailedLoadNotCached ==
    \A i \in 1..Len(lcLog), j \in 1..Len(lcLog) :
        (i < j /\ lcLog[i].file = lcLog[j].file /\ lcLog[i].err) =>
            ~(~lcLog[j].err /\ lcLog[j].creds = lcLog[i].creds)

====
